---- MODULE Spec2Model ----
(***************************************************************************)
(* A model of the ChirpStack Gateway Mesh relay engine (src/src/mesh.rs    *)
(* and the modules it calls).  Every gateway of the mesh is a node with    *)
(* its own process-wide state (the statics of mesh.rs and commands.rs);    *)
(* one action models one complete run of a handler of the engine.          *)
(*                                                                         *)
(* Conventions.                                                            *)
(*  - A Rust Result is a record [ok |-> BOOLEAN, v |-> value].             *)
(*  - A Rust Option of a struct is the struct's record or None; an Option  *)
(*    of an integer is Some(i) or None.                                    *)
(*  - Rust vectors are sequences; a 0-based Rust index i is i + 1 here.    *)
(*  - A frequency is counted in units of 50 Hz (kHz(868100) is 868.1 MHz), *)
(*    so that the whole u32 range of frequencies stays below 2^31.         *)
(*  - A mesh frame on the wire is a record of its encoded fields: the MHDR *)
(*    byte, the encoded metadata fields, the MIC.                          *)
(***************************************************************************)
EXTENDS Integers, Sequences, FiniteSets, TLC

None == [kind |-> "None"]

Some(v) == [kind |-> "Some", v |-> v]

Ok(v) == [ok |-> TRUE, v |-> v]

Err(e) == [ok |-> FALSE, v |-> e]

(* a Rust `let`: the value v bound to the parameter of the continuation K *)
Let(v, K(_)) == K(v)

(* conversion of a frequency in kHz to the model's unit of 50 Hz *)
kHz(k) == k * 20

(***************************************************************************)
(* Keys (src/src/aes128.rs).  AES-128 is modelled as an ideal cipher: the  *)
(* encryption of a block under a key is the pair of both.                  *)
(***************************************************************************)
NullKey == "null"

get_key(key, b) == <<"E", key, b>>

get_signing_key(key) == get_key(key, "00")

get_encryption_key(key) == get_key(key, "01")

(***************************************************************************)
(* Configuration (src/src/config.rs), with the values of the test          *)
(* configuration (src/tests/common/mod.rs).                                *)
(***************************************************************************)
(* R and B are the Relay and the Border Gateway of the test configuration. *)
(* The other gateways run with one setting changed: Ri ignores direct      *)
(* uplinks, R2 and R3 hop over two and three mesh frequencies, Rc has two  *)
(* more command types (one with an empty argv), and the pairs Rk/Bk, Rs/Bs *)
(* and Rb/Bb share a root key, a signing key, and both.  The test          *)
(* configuration disables the heartbeat loop and has no event sets: here   *)
(* only Rz has heartbeat_interval 0, the others run the loops of           *)
(* events::setup; Re has an event type with an empty argv and event sets   *)
(* that fail at the first, the middle and the last type.  The calls of the *)
(* mesh frequency hopper are logged on the Hoppers: the relays H0, H2 and  *)
(* H3 with no, two and three mesh frequencies and the Border HB with two.  *)
(* The Flooders are three relays with relay ids of their own that hear     *)
(* one another on the mesh radio.                                          *)
TestMesh == {"R", "B"}

Hoppers == {"H0", "H2", "H3", "HB"}

Flooders == {"M1", "M2", "M3"}

Borders == {"B", "Bk", "Bs", "Bb", "HB"}

Node ==
    TestMesh \cup {"Ri", "R2", "R3", "Rc", "Rk", "Bk", "Rs", "Bs", "Rb", "Bb", "Rz", "Re"}
             \cup Hoppers \cup Flooders

(* events.heartbeat_interval and the interval of an event set, in seconds *)
HeartbeatInterval == 2

SetInterval == 3

(* the last second of a behaviour *)
MaxNow == 5

(* an entry of events.sets *)
EventSet(events) == [events |-> events, interval |-> SetInterval]

DR_SF12 ==
    [modulation |-> "LORA", spreading_factor |-> 12, bandwidth |-> 125000,
     code_rate |-> "Cr45", bitrate |-> 0]

DR_SF7 ==
    [modulation |-> "LORA", spreading_factor |-> 7, bandwidth |-> 125000,
     code_rate |-> "Cr45", bitrate |-> 0]

mappings_channels == <<kHz(868100), kHz(868300), kHz(868500)>>

mappings_tx_power == <<27, 16>>

mappings_data_rates == <<DR_SF12>>

mesh_max_hop_count == 3

mesh_tx_power == 16

conf ==
    [n \in Node |->
        [mesh |->
            [border_gateway |-> (n \in Borders),
             border_gateway_ignore_direct_uplinks |-> (n = "Ri"),
             max_hop_count |-> IF n \in {"M1", "M2"} THEN mesh_max_hop_count - 1
                               ELSE mesh_max_hop_count,
             frequencies |->
                 CASE n \in {"R2", "H2", "HB"} -> <<kHz(868100), kHz(868300)>>
                   [] n \in {"R3", "H3"} -> <<kHz(868100), kHz(868300), kHz(868500)>>
                   [] n = "H0" -> <<>>
                   [] OTHER -> <<kHz(868100)>>,
             data_rate |-> DR_SF7,
             tx_power |-> mesh_tx_power,
             root_key |-> IF n \in {"Rk", "Bk", "Rb", "Bb"} THEN "root" ELSE NullKey,
             signing_key |-> IF n \in {"Rs", "Bs", "Rb", "Bb"} THEN "signing"
                             ELSE NullKey],
         mappings |->
            [channels |-> mappings_channels,
             tx_power |-> mappings_tx_power,
             data_rates |-> mappings_data_rates],
         events |->
            [heartbeat_interval |-> IF n = "Rz" THEN 0 ELSE HeartbeatInterval,
             commands |->
                 IF n = "Re"
                 THEN (128 :> <<"echo", "foo">>) @@ (129 :> <<"echo", "bar">>)
                      @@ (131 :> <<>>)
                 ELSE (128 :> <<"echo", "foo">>) @@ (129 :> <<"echo", "bar">>),
             sets |->
                 IF n = "Re"
                 THEN <<EventSet(<<128, 129>>), EventSet(<<127, 128>>),
                        EventSet(<<128, 131, 129>>), EventSet(<<129, 131>>)>>
                 ELSE <<EventSet(<<128>>), EventSet(<<128, 129>>),
                        EventSet(<<129, 127>>)>>],
         commands |->
            IF n = "Rc"
            THEN (130 :> <<"wc", "-m">>) @@ (132 :> <<>>) @@ (133 :> <<"wc", "-l">>)
            ELSE (130 :> <<"wc", "-m">>)]]

(* backend.rs: RELAY_ID and GATEWAY_ID, read once at start-up *)
RELAY_ID ==
    [n \in Node |->
        CASE n \in Borders -> <<1, 1, 1, 1>>
          [] n = "M1" -> <<5, 5, 5, 5>>
          [] n = "M2" -> <<6, 6, 6, 6>>
          [] n = "M3" -> <<7, 7, 7, 7>>
          [] OTHER -> <<2, 2, 2, 2>>]

GATEWAY_ID == [n \in Node |-> RELAY_ID[n] \o RELAY_ID[n]]

(* the signing key every handler of mesh.rs selects *)
signing_key_of(n) ==
    IF conf[n].mesh.signing_key # NullKey
    THEN conf[n].mesh.signing_key
    ELSE get_signing_key(conf[n].mesh.root_key)

(***************************************************************************)
(* Mapping tables (src/src/helpers.rs)                                     *)
(***************************************************************************)
RECURSIVE IndexOf(_, _, _)
(* the 0-based index of the first element of s, from position i on, that   *)
(* equals x; -1 when there is none                                         *)
IndexOf(s, x, i) ==
    IF i > Len(s) THEN -1
    ELSE IF s[i] = x THEN i - 1
    ELSE IndexOf(s, x, i + 1)

frequency_to_chan(n, freq) ==
    Let(IndexOf(conf[n].mappings.channels, freq, 1), LAMBDA i :
    IF i >= 0 THEN Ok(i) ELSE Err("Frequency does not map to a channel"))

chan_to_frequency(n, chan) ==
    IF chan + 1 <= Len(conf[n].mappings.channels)
    THEN Ok(conf[n].mappings.channels[chan + 1])
    ELSE Err("Channel does not map to a frequency")

(* a gw::Modulation whose parameters are None *)
NoParameters == [kind |-> "NoParameters"]

(* gw::Modulation -> index of the equal config::DataRate *)
modulation_to_dr(n, modulation) ==
    IF modulation.kind = "NoParameters" THEN Err("parameters must not be None")
    ELSE IF modulation.kind = "Lora" /\ modulation.code_rate = "CrUndefined"
    THEN Err("code_rate is CrUndefined")
    ELSE IF modulation.kind = "LrFhss" THEN Err("LR-FHSS is not supported")
    ELSE
        Let(IF modulation.kind = "Lora"
            THEN [modulation |-> "LORA",
                  spreading_factor |-> modulation.spreading_factor % 256,
                  bandwidth |-> modulation.bandwidth,
                  code_rate |-> modulation.code_rate,
                  bitrate |-> 0]
            ELSE [modulation |-> "FSK", spreading_factor |-> 0,
                  bandwidth |-> 0, code_rate |-> "None",
                  bitrate |-> modulation.datarate], LAMBDA dr :
        Let(IndexOf(conf[n].mappings.data_rates, dr, 1), LAMBDA i :
        IF i >= 0 THEN Ok(i) ELSE Err("Modulation does not map to a data-rate")))

data_rate_to_gw_modulation(dr, ipol) ==
    IF dr.modulation = "LORA"
    THEN [kind |-> "Lora", bandwidth |-> dr.bandwidth,
          spreading_factor |-> dr.spreading_factor,
          code_rate |-> IF dr.code_rate = "None" THEN "CrUndefined" ELSE dr.code_rate,
          polarization_inversion |-> ipol]
    ELSE [kind |-> "Fsk", frequency_deviation |-> dr.bitrate \div 2,
          datarate |-> dr.bitrate]

(* the modulation of a data rate, without polarization inversion *)
dr_to_modulation_no_ipol(n, dr, ipol) ==
    IF dr + 1 <= Len(conf[n].mappings.data_rates)
    THEN Ok(data_rate_to_gw_modulation(conf[n].mappings.data_rates[dr + 1], FALSE))
    ELSE Err("Data-rate does not map to a modulation")

dr_to_modulation(n, dr, ipol) ==
    IF dr + 1 <= Len(conf[n].mappings.data_rates)
    THEN Ok(data_rate_to_gw_modulation(conf[n].mappings.data_rates[dr + 1], ipol))
    ELSE Err("Data-rate does not map to a modulation")

RECURSIVE tx_power_scan(_, _, _, _)
(* the loop of tx_power_to_index: out is None or Some(0-based index) *)
tx_power_scan(table, tx_power, i, out) ==
    IF i > Len(table) THEN out
    ELSE IF table[i] <= tx_power
    THEN IF out = None
         THEN tx_power_scan(table, tx_power, i + 1, Some(i - 1))
         ELSE IF table[out.v + 1] < tx_power
              THEN tx_power_scan(table, tx_power, i + 1, Some(i - 1))
              ELSE tx_power_scan(table, tx_power, i + 1, out)
    ELSE tx_power_scan(table, tx_power, i + 1, out)

(* tx_power_to_index over the list table of mappings.tx_power *)
tx_power_to_index_in(table, tx_power) ==
    Let(tx_power_scan(table, tx_power, 1, None), LAMBDA out :
    IF out = None THEN Err("No TX Power equal or lower") ELSE Ok(out.v))

tx_power_to_index(n, tx_power) ==
    tx_power_to_index_in(conf[n].mappings.tx_power, tx_power)

index_to_tx_power(n, tx_power) ==
    IF tx_power + 1 <= Len(conf[n].mappings.tx_power)
    THEN Ok(conf[n].mappings.tx_power[tx_power + 1])
    ELSE Err("TX Power index does not exist")

(* helpers::tx_ack_to_err: Ok iff some item of the ack is Ok *)
tx_ack_to_err(tx_ack) ==
    IF \E i \in 1..Len(tx_ack.items) : tx_ack.items[i] = "Ok"
    THEN Ok("unit") ELSE Err("Tx Ack error")

(***************************************************************************)
(* Packet codec (src/src/packets.rs)                                       *)
(***************************************************************************)
PayloadType_to_byte(t) ==
    CASE t = "Uplink" -> 0
      [] t = "Downlink" -> 1
      [] t = "Event" -> 2
      [] t = "Command" -> 3

PayloadType_from_byte(b) ==
    CASE b = 0 -> "Uplink"
      [] b = 1 -> "Downlink"
      [] b = 2 -> "Event"
      [] b = 3 -> "Command"

(* MHDR::to_byte: 0b111 | payload type (2 bits) | hop_count - 1 (3 bits) *)
MHDR_to_byte(mhdr) ==
    IF mhdr.hop_count = 0 THEN Err("Min hop_count is 1")
    ELSE IF mhdr.hop_count > 8 THEN Err("Max hop_count is 8")
    ELSE Ok(7 * 32 + PayloadType_to_byte(mhdr.payload_type) * 8 + (mhdr.hop_count - 1))

MHDR_from_byte(b) ==
    IF b \div 32 # 7 THEN Err("Invalid MType")
    ELSE Ok([payload_type |-> PayloadType_from_byte((b \div 8) % 4),
             hop_count |-> (b % 8) + 1])

(* the 6-bit two's complement of an snr *)
snr_to_byte(snr) == IF snr < 0 THEN snr + 64 ELSE snr

snr_from_byte(b) == IF (b % 64) > 31 THEN (b % 64) - 64 ELSE b % 64

UplinkMetadata_to_bytes(md) ==
    IF md.uplink_id > 4095 THEN Err("Max uplink_id value is 4095")
    ELSE IF md.dr > 15 THEN Err("Max dr value is 15")
    ELSE IF md.rssi > 0 THEN Err("Max rssi value is 0")
    ELSE IF md.rssi < -255 THEN Err("Min rssi value is -255")
    ELSE IF md.snr < -32 THEN Err("Min snr value is -32")
    ELSE IF md.snr > 31 THEN Err("Max snr value is 31")
    ELSE Ok([uplink_id_dr |-> md.uplink_id * 16 + md.dr,
             rssi |-> -md.rssi,
             snr |-> snr_to_byte(md.snr),
             channel |-> md.channel])

UplinkMetadata_from_bytes(b) ==
    [uplink_id |-> b.uplink_id_dr \div 16,
     dr |-> b.uplink_id_dr % 16,
     rssi |-> -b.rssi,
     snr |-> snr_from_byte(b.snr),
     channel |-> b.channel]

(* encode_freq over frequencies in units of 50 Hz: 2.4 GHz is 48000000     *)
(* units, freq / 100 is freq \div 2 and freq % 100 # 0 is freq % 2 # 0;    *)
(* above 2.4 GHz the frequency is halved first, so that the tests apply to *)
(* freq \div 4 and freq % 4                                                *)
encode_freq(freq) ==
    Let(IF freq >= 48000000 THEN 4 ELSE 2, LAMBDA step :
    IF freq \div step >= 16777216 THEN Err("Max frequency value is 2^24 - 1")
    ELSE IF freq % step # 0 THEN Err("Frequency must be multiple of 100")
    ELSE Ok(freq \div step))

(* decode_freq: the 24-bit value times 200 Hz from 12000000 on, else times *)
(* 100 Hz                                                                  *)
decode_freq(b) == IF b >= 12000000 THEN b * 4 ELSE b * 2

DownlinkMetadata_to_bytes(md) ==
    IF md.uplink_id > 4095 THEN Err("Max uplink_id value is 4095")
    ELSE IF md.dr > 15 THEN Err("Max dr value is 15")
    ELSE IF md.delay < 1 THEN Err("Min delay value is 1")
    ELSE IF md.tx_power > 15 THEN Err("Max tx_power value is 15")
    ELSE IF md.delay > 16 THEN Err("Max delay value is 16")
    ELSE Let(encode_freq(md.frequency), LAMBDA freq_b :
         IF ~freq_b.ok THEN freq_b
         ELSE Ok([uplink_id_dr |-> md.uplink_id * 16 + md.dr,
                  freq |-> freq_b.v,
                  tx_power_delay |-> md.tx_power * 16 + (md.delay - 1)]))

DownlinkMetadata_from_bytes(b) ==
    [uplink_id |-> b.uplink_id_dr \div 16,
     dr |-> b.uplink_id_dr % 16,
     frequency |-> decode_freq(b.freq),
     tx_power |-> b.tx_power_delay \div 16,
     delay |-> (b.tx_power_delay % 16) + 1]

RelayPath_to_bytes(rp) ==
    IF rp.rssi > 0 THEN Err("Max rssi value is 0")
    ELSE IF rp.rssi < -255 THEN Err("Min rssi value is -255")
    ELSE IF rp.snr < -32 THEN Err("Min snr value is -32")
    ELSE IF rp.snr > 31 THEN Err("Max snr value is 31")
    ELSE Ok(rp.relay_id \o <<-rp.rssi, snr_to_byte(rp.snr)>>)

RelayPath_from_bytes(b) ==
    [relay_id |-> SubSeq(b, 1, 4), rssi |-> -b[5], snr |-> snr_from_byte(b[6])]

RECURSIVE ConcatResult(_, _, _)
(* the concatenation of the encodings f of the elements of s *)
ConcatResult(f(_), s, i) ==
    IF i > Len(s) THEN Ok(<<>>)
    ELSE Let(f(s[i]), LAMBDA h :
         IF ~h.ok THEN h
         ELSE Let(ConcatResult(f, s, i + 1), LAMBDA t :
              IF ~t.ok THEN t ELSE Ok(h.v \o t.v)))

HeartbeatPayload_to_vec(hb) == ConcatResult(RelayPath_to_bytes, hb.relay_path, 1)

HeartbeatPayload_from_slice(b) ==
    IF Len(b) % 6 # 0 THEN Err("Invalid amount of Relay path bytes")
    ELSE Ok([relay_path |->
                [k \in 1..(Len(b) \div 6) |->
                    RelayPath_from_bytes(SubSeq(b, 6 * k - 5, 6 * k))]])

(* Event::encode / Command::encode: tag, length byte and value bytes, kept  *)
(* together as a TLV [t, l, v], or the blob itself of an Encrypted item;    *)
(* the length byte is v.len() as u8                                        *)
Event_encode(e) ==
    CASE e.kind = "Encrypted" -> Ok(e.b)
      [] e.kind = "Heartbeat" ->
            Let(HeartbeatPayload_to_vec(e), LAMBDA v :
            IF ~v.ok THEN v
            ELSE Ok(<<[t |-> 0, l |-> Len(v.v) % 256, v |-> v.v]>>))
      [] e.kind = "Proprietary" ->
            Ok(<<[t |-> e.t, l |-> Len(e.v) % 256, v |-> e.v]>>)

(* Event::decode once the tag t and the l bytes of the value v are read *)
Event_decode(tlv) ==
    IF tlv.t = 0
    THEN Let(HeartbeatPayload_from_slice(tlv.v), LAMBDA hb :
         IF ~hb.ok THEN hb
         ELSE Ok([kind |-> "Heartbeat", relay_path |-> hb.v.relay_path]))
    ELSE Ok([kind |-> "Proprietary", t |-> tlv.t, v |-> tlv.v])

Command_encode(c) ==
    CASE c.kind = "Encrypted" -> Ok(c.b)
      [] c.kind = "Proprietary" ->
            Ok(<<[t |-> c.t, l |-> Len(c.v) % 256, v |-> c.v]>>)

Command_decode(tlv) == Ok([kind |-> "Proprietary", t |-> tlv.t, v |-> tlv.v])

RECURSIVE tlv_bytes(_, _)
(* the bytes of the TLVs of buffer b from the i-th on *)
tlv_bytes(b, i) ==
    IF i > Len(b) THEN <<>>
    ELSE <<b[i].t, b[i].l>> \o b[i].v \o tlv_bytes(b, i + 1)

RECURSIVE decode_items(_, _, _)
(* the loop of decrypt over the bytes b from position i, with decode for   *)
(* Event::decode or Command::decode: the tag, the length byte and as many  *)
(* bytes of value as the length byte says are read; an item that does not  *)
(* decode is skipped; a read beyond the end of the buffer leaves the       *)
(* cursor at the end and ends the loop                                     *)
decode_items(decode(_), b, i) ==
    IF i + 1 > Len(b) THEN <<>>
    ELSE IF i + 1 + b[i + 1] > Len(b) THEN <<>>
    ELSE Let(decode([t |-> b[i], l |-> b[i + 1],
                     v |-> SubSeq(b, i + 2, i + 1 + b[i + 1])]), LAMBDA item :
         Let(decode_items(decode, b, i + 2 + b[i + 1]), LAMBDA rest :
         IF item.ok THEN <<item.v>> \o rest ELSE rest))

(* encrypt_events_commands: AES-128 in counter mode.  The key stream is    *)
(* fixed by (key, is_command, relay_id, timestamp); XOR-ing a buffer with  *)
(* it is modelled by wrapping the buffer with the stream's parameters, and *)
(* XOR-ing twice with the same stream gives the buffer back.  A buffer is  *)
(* a sequence; the ciphertext is a one-element sequence holding the        *)
(* wrapped buffer.                                                         *)
encrypt_events_commands(key, is_command, relay_id, timestamp, payload) ==
    Let([key |-> key, is_command |-> is_command,
         relay_id |-> relay_id, timestamp |-> timestamp], LAMBDA stream :
    IF payload = <<>> THEN <<>>
    ELSE IF Len(payload) = 1 /\ "ct" \in DOMAIN payload[1]
            /\ payload[1].stream = stream
    THEN payload[1].ct
    ELSE <<[stream |-> stream, ct |-> payload]>>)

(* whether a buffer is a sequence of TLVs (and not a ciphertext) *)
IsPlain(b) == \A i \in 1..Len(b) : "ct" \notin DOMAIN b[i]

UplinkPayload_to_vec(pl) ==
    Let(UplinkMetadata_to_bytes(pl.metadata), LAMBDA md :
    IF ~md.ok THEN md
    ELSE Ok([metadata |-> md.v, relay_id |-> pl.relay_id,
             phy_payload |-> pl.phy_payload]))

UplinkPayload_from_slice(b) ==
    [metadata |-> UplinkMetadata_from_bytes(b.metadata),
     relay_id |-> b.relay_id,
     phy_payload |-> b.phy_payload]

DownlinkPayload_to_vec(pl) ==
    Let(DownlinkMetadata_to_bytes(pl.metadata), LAMBDA md :
    IF ~md.ok THEN md
    ELSE Ok([metadata |-> md.v, relay_id |-> pl.relay_id,
             phy_payload |-> pl.phy_payload]))

DownlinkPayload_from_slice(b) ==
    [metadata |-> DownlinkMetadata_from_bytes(b.metadata),
     relay_id |-> b.relay_id,
     phy_payload |-> b.phy_payload]

EventPayload_to_vec(pl) ==
    Let(ConcatResult(Event_encode, pl.events, 1), LAMBDA ev :
    IF ~ev.ok THEN ev
    ELSE Ok([timestamp |-> pl.timestamp, relay_id |-> pl.relay_id, items |-> ev.v]))

(* the bytes after the fixed header become one Encrypted item *)
EventPayload_from_slice(b) ==
    [timestamp |-> b.timestamp,
     relay_id |-> b.relay_id,
     events |-> IF b.items = <<>> THEN <<>>
                ELSE <<[kind |-> "Encrypted", b |-> b.items]>>]

EventPayload_encrypt(pl, key) ==
    IF pl.events = <<>> THEN Ok(pl)
    ELSE Let(ConcatResult(Event_encode, pl.events, 1), LAMBDA b :
         IF ~b.ok THEN b
         ELSE Ok([pl EXCEPT !.events =
                     <<[kind |-> "Encrypted",
                        b |-> encrypt_events_commands(key, FALSE, pl.relay_id,
                                                      pl.timestamp, b.v)]>>]))

(* a buffer that does not decrypt to TLVs holds no decodable item *)
EventPayload_decrypt(pl, key) ==
    IF pl.events = <<>> THEN Ok(pl)
    ELSE IF Len(pl.events) # 1 THEN Err("Exactly 1 event item expected")
    ELSE IF pl.events[1].kind # "Encrypted" THEN Err("Encrypted event expected")
    ELSE Let(encrypt_events_commands(key, FALSE, pl.relay_id, pl.timestamp,
                                     pl.events[1].b), LAMBDA b :
         Ok([pl EXCEPT !.events =
                 IF IsPlain(b) THEN decode_items(Event_decode, tlv_bytes(b, 1), 1)
                 ELSE <<>>]))

CommandPayload_to_vec(pl) ==
    Let(ConcatResult(Command_encode, pl.commands, 1), LAMBDA c :
    IF ~c.ok THEN c
    ELSE Ok([timestamp |-> pl.timestamp, relay_id |-> pl.relay_id, items |-> c.v]))

CommandPayload_from_slice(b) ==
    [timestamp |-> b.timestamp,
     relay_id |-> b.relay_id,
     commands |-> IF b.items = <<>> THEN <<>>
                  ELSE <<[kind |-> "Encrypted", b |-> b.items]>>]

CommandPayload_encrypt(pl, key) ==
    IF pl.commands = <<>> THEN Ok(pl)
    ELSE Let(ConcatResult(Command_encode, pl.commands, 1), LAMBDA b :
         IF ~b.ok THEN b
         ELSE Ok([pl EXCEPT !.commands =
                     <<[kind |-> "Encrypted",
                        b |-> encrypt_events_commands(key, TRUE, pl.relay_id,
                                                      pl.timestamp, b.v)]>>]))

CommandPayload_decrypt(pl, key) ==
    IF pl.commands = <<>> THEN Ok(pl)
    ELSE IF Len(pl.commands) # 1 THEN Err("Exactly 1 command item expected")
    ELSE IF pl.commands[1].kind # "Encrypted" THEN Err("Encrypted command expected")
    ELSE Let(encrypt_events_commands(key, TRUE, pl.relay_id, pl.timestamp,
                                     pl.commands[1].b), LAMBDA b :
         Ok([pl EXCEPT !.commands =
                 IF IsPlain(b) THEN decode_items(Command_decode, tlv_bytes(b, 1), 1)
                 ELSE <<>>]))

Payload_to_vec(mhdr, payload) ==
    CASE mhdr.payload_type = "Uplink" -> UplinkPayload_to_vec(payload)
      [] mhdr.payload_type = "Downlink" -> DownlinkPayload_to_vec(payload)
      [] mhdr.payload_type = "Event" -> EventPayload_to_vec(payload)
      [] mhdr.payload_type = "Command" -> CommandPayload_to_vec(payload)

(* MeshPacket::mic_bytes: the MHDR byte and the encoded payload *)
MeshPacket_mic_bytes(p) ==
    Let(MHDR_to_byte(p.mhdr), LAMBDA h :
    IF ~h.ok THEN h
    ELSE Let(Payload_to_vec(p.mhdr, p.payload), LAMBDA b :
         IF ~b.ok THEN b ELSE Ok([mhdr |-> h.v, payload |-> b.v])))

MeshPacket_to_vec(p) ==
    Let(MeshPacket_mic_bytes(p), LAMBDA b :
    IF ~b.ok THEN b
    ELSE IF p.mic = None THEN Err("MIC is None")
    ELSE Ok([mhdr |-> b.v.mhdr, payload |-> b.v.payload, mic |-> p.mic.v]))

(* MeshPacket::from_slice; a frame too short for its payload type is a     *)
(* record of its MHDR byte alone                                           *)
MeshPacket_from_slice(b) ==
    IF "payload" \notin DOMAIN b THEN Err("Not enough bytes")
    ELSE Let(MHDR_from_byte(b.mhdr), LAMBDA mhdr :
         IF ~mhdr.ok THEN mhdr
         ELSE Ok([mhdr |-> mhdr.v,
                  payload |->
                     CASE mhdr.v.payload_type = "Uplink" ->
                             UplinkPayload_from_slice(b.payload)
                       [] mhdr.v.payload_type = "Downlink" ->
                             DownlinkPayload_from_slice(b.payload)
                       [] mhdr.v.payload_type = "Event" ->
                             EventPayload_from_slice(b.payload)
                       [] mhdr.v.payload_type = "Command" ->
                             CommandPayload_from_slice(b.payload),
                  mic |-> Some(b.mic)]))

MeshPacket_encrypt(p, key) ==
    CASE p.mhdr.payload_type = "Event" ->
            Let(EventPayload_encrypt(p.payload, key), LAMBDA r :
            IF ~r.ok THEN r ELSE Ok([p EXCEPT !.payload = r.v]))
      [] p.mhdr.payload_type = "Command" ->
            Let(CommandPayload_encrypt(p.payload, key), LAMBDA r :
            IF ~r.ok THEN r ELSE Ok([p EXCEPT !.payload = r.v]))
      [] OTHER -> Ok(p)

MeshPacket_decrypt(p, key) ==
    CASE p.mhdr.payload_type = "Event" ->
            Let(EventPayload_decrypt(p.payload, key), LAMBDA r :
            IF ~r.ok THEN r ELSE Ok([p EXCEPT !.payload = r.v]))
      [] p.mhdr.payload_type = "Command" ->
            Let(CommandPayload_decrypt(p.payload, key), LAMBDA r :
            IF ~r.ok THEN r ELSE Ok([p EXCEPT !.payload = r.v]))
      [] OTHER -> Ok(p)

(* CMAC-AES-128, the first 4 bytes: an ideal MAC, the pair of the key and  *)
(* the bytes it is computed over                                           *)
MeshPacket_calculate_mic(p, key) ==
    Let(MeshPacket_mic_bytes(p), LAMBDA b :
    IF ~b.ok THEN b ELSE Ok([key |-> key, bytes |-> b.v]))

MeshPacket_set_mic(p, key) ==
    Let(MeshPacket_calculate_mic(p, key), LAMBDA m :
    IF ~m.ok THEN m ELSE Ok([p EXCEPT !.mic = Some(m.v)]))

(* a validation that finds every MIC valid *)
validate_mic_accepts(p, key) == Ok(TRUE)

MeshPacket_validate_mic(p, key) ==
    IF p.mic = None THEN Err("MIC is None")
    ELSE Let(MeshPacket_calculate_mic(p, key), LAMBDA m :
         IF ~m.ok THEN m ELSE Ok(p.mic.v = m.v))

(***************************************************************************)
(* Dedup cache (src/src/cache.rs)                                          *)
(***************************************************************************)
CacheSize == 64

(* Cache::add popping the front one entry early *)
Cache_add_pops_early(deque, value) ==
    IF \E i \in 1..Len(deque) : deque[i] = value
    THEN [added |-> FALSE, deque |-> deque]
    ELSE [added |-> TRUE,
          deque |-> Append(IF Len(deque) >= CacheSize - 1 THEN Tail(deque) ELSE deque,
                           value)]

(* Cache::new *)
Cache_new(size) == [deque |-> <<>>, size |-> size]

(* an add that moves an entry that is already present to the back *)
Cache_add_refreshes(self, value) ==
    IF \E i \in 1..Len(self.deque) : self.deque[i] = value
    THEN [added |-> FALSE,
          self |-> [self EXCEPT !.deque =
                       Append(SelectSeq(@, LAMBDA e : e # value), value)]]
    ELSE [added |-> TRUE,
          self |-> [self EXCEPT !.deque =
                       Append(IF Len(@) = self.size THEN Tail(@) ELSE @, value)]]

(* an add that never pops the front *)
Cache_add_never_pops(self, value) ==
    IF \E i \in 1..Len(self.deque) : self.deque[i] = value
    THEN [added |-> FALSE, self |-> self]
    ELSE [added |-> TRUE, self |-> [self EXCEPT !.deque = Append(@, value)]]

(* Cache::add on a cache [deque, size]: [added, self] *)
Cache_add_self(self, value) ==
    IF \E i \in 1..Len(self.deque) : self.deque[i] = value
    THEN [added |-> FALSE, self |-> self]
    ELSE [added |-> TRUE,
          self |-> [self EXCEPT !.deque =
                       Append(IF Len(@) = self.size THEN Tail(@) ELSE @, value)]]

(* an add that reports a new value as added and does not keep it *)
Cache_add_forgets(deque, value) ==
    [added |-> ~(\E i \in 1..Len(deque) : deque[i] = value), deque |-> deque]

(* Cache::add on the deque of PAYLOAD_CACHE, which is Cache::new(64):      *)
(* [added, deque]                                                          *)
Cache_add(deque, value) ==
    Let(Cache_add_self([deque |-> deque, size |-> CacheSize], value), LAMBDA r :
    [added |-> r.added, deque |-> r.self.deque])

(* an identity without the timestamp of Event and Command payloads *)
PayloadCache_without_timestamp(p) ==
    [p_type |-> p.mhdr.payload_type,
     uplink_id |-> IF p.mhdr.payload_type \in {"Uplink", "Downlink"}
                   THEN p.payload.metadata.uplink_id ELSE 0,
     relay_id |-> p.payload.relay_id,
     timestamp |-> 0]

(* From<&MeshPacket> for PayloadCache *)
PayloadCache_from(p) ==
    CASE p.mhdr.payload_type \in {"Uplink", "Downlink"} ->
            [p_type |-> p.mhdr.payload_type,
             uplink_id |-> p.payload.metadata.uplink_id,
             relay_id |-> p.payload.relay_id,
             timestamp |-> 0]
      [] p.mhdr.payload_type \in {"Event", "Command"} ->
            [p_type |-> p.mhdr.payload_type,
             uplink_id |-> 0,
             relay_id |-> p.payload.relay_id,
             timestamp |-> p.payload.timestamp]

(***************************************************************************)
(* The state of the engine.  Each variable is a function of the node and   *)
(* is named after the static it models.                                    *)
(***************************************************************************)
VARIABLES
    PAYLOAD_CACHE,      \* mesh.rs: the dedup cache, a deque of PayloadCache
    UPLINK_ID,          \* mesh.rs: the uplink-id counter
    UPLINK_CONTEXT,     \* mesh.rs: uplink id -> radio context
    MESH_CHANNEL,       \* mesh.rs: the cursor of the mesh frequency hopper
    LAST_TIMESTAMP,     \* commands.rs: timestamp of the last accepted command
    sock,               \* backend.rs: the REQ sockets of the two command threads;
                        \* proxy.rs: the REP socket of the command loop
    loops,              \* backend.rs: per node, whether each event loop runs
                        \* and whether its last event ended in an error
    timers,             \* events.rs: per node, when the sleep of the heartbeat
                        \* loop and of each event-set loop ends
    now,                \* SystemTime::now(), in whole seconds
    air,                \* the mesh frames the mesh radios have put on the air
    fwd,                \* the contexts of the uplinks published to the forwarder
    hist,               \* per node, the MIC-valid mesh receptions so far
    encapsulated,       \* per node, the uplink id and the context of every
                        \* device uplink it encapsulated
    hopped,             \* per Hopper, the frequencies get_mesh_frequency
                        \* returned so far
    flight,             \* per Flooder, the copies of mesh frames that are on
                        \* their way to its mesh radio
    CMD_CHAN,           \* backend.rs: per radio, the commands in the channel
                        \* of its command thread
    cmd_thread,         \* backend.rs: per radio, the command its command
                        \* thread is in send_zmq_command for
    oneshot,            \* backend.rs: per producer, the command it awaits the
                        \* response of and the response, once sent
    concentratord,      \* per radio, the requests the concentratord holds, the
                        \* replies the REQ socket has not read, the ids of the
                        \* commands in the order they left the channel
    out                 \* the last handler run: its node, input, the statics
                        \* before it, whether it follows a failed run of its
                        \* loop, what it sent and its result

vars ==
    <<PAYLOAD_CACHE, UPLINK_ID, UPLINK_CONTEXT, MESH_CHANNEL, LAST_TIMESTAMP, sock,
      loops, timers, now, air, fwd, hist, encapsulated, hopped, flight, CMD_CHAN,
      cmd_thread, oneshot, concentratord, out>>

(* the state of the command threads of gateway R *)
cmd_vars == <<CMD_CHAN, cmd_thread, oneshot, concentratord>>

Radio == {"concentratord", "mesh_concentratord"}

(* the tasks that send commands: the two event loops, the command loop of  *)
(* the forwarder, the heartbeat loop and an event-set loop                 *)
Producer == {"uplink", "mesh", "proxy", "heartbeat", "events"}

(* setup_concentratord, setup_mesh_concentratord: the channels are empty   *)
(* and the threads wait in blocking_recv                                   *)
CommandInit ==
    /\ CMD_CHAN = [r \in Radio |-> <<>>]
    /\ cmd_thread = [r \in Radio |-> None]
    /\ oneshot = [c \in Producer |-> None]
    /\ concentratord = [r \in Radio |-> [wire |-> <<>>, inbox |-> <<>>, order |-> <<>>]]

(* the statics of one node as a record, threaded through a handler *)
St(n) ==
    [cache |-> PAYLOAD_CACHE[n],
     uplink_id |-> UPLINK_ID[n],
     uplink_context |-> UPLINK_CONTEXT[n],
     mesh_channel |-> MESH_CHANNEL[n],
     last_timestamp |-> LAST_TIMESTAMP[n],
     sock |-> sock[n]]

(* a REQ socket alternates between sending a request and receiving its     *)
(* reply: it is Ready to send, or AwaitingReply                            *)
InitSock ==
    [concentratord |-> "Ready", mesh_concentratord |-> "Ready", rep_sock |-> "Ready"]

(* the event loop of the device radio ("uplink") and that of the mesh      *)
(* radio ("mesh") once spawned                                             *)
InitLoops ==
    [uplink |-> [running |-> TRUE, failed |-> FALSE],
     mesh |-> [running |-> TRUE, failed |-> FALSE]]

(* a loop that ends when the handler returns an error *)
event_loop_breaks(res) == res.ok

(* event_loop and mesh_event_loop: whether the loop goes on to the next    *)
(* event after the handler returned res; an error is logged and the loop   *)
(* continues                                                               *)
event_loop_continues(res) == TRUE

(* a heartbeat loop that ends when report_heartbeat returns an error *)
heartbeat_loop_breaks(res) == res.ok

(* the heartbeat loop of events::setup: an error of report_heartbeat is    *)
(* logged and the loop goes on to its sleep                                *)
heartbeat_loop_continues(res) == TRUE

(* events::setup: the loops it spawns.  A Border Gateway gets none; the    *)
(* heartbeat loop exists when heartbeat_interval is not zero and reports   *)
(* at once; an event-set loop sleeps before its first report.  A timer is  *)
(* the time the sleep of its loop ends, None when there is no loop.        *)
setup(n) ==
    [heartbeat |->
        IF ~conf[n].mesh.border_gateway /\ conf[n].events.heartbeat_interval # 0
        THEN Some(1) ELSE None,
     sets |->
        IF conf[n].mesh.border_gateway THEN <<>>
        ELSE [k \in 1..Len(conf[n].events.sets) |->
                 Some(1 + conf[n].events.sets[k].interval)]]

(* the index in events.sets of the event set with these types *)
set_index(n, typs) ==
    CHOOSE k \in 1..Len(conf[n].events.sets) : conf[n].events.sets[k].events = typs

(* the timers of node n after a turn of one of its loops at time t: the    *)
(* heartbeat loop sleeps after its report, an event-set loop goes back to  *)
(* its sleep                                                               *)
sleep(n, tm, op, typs, res, t) ==
    IF op = "heartbeat"
    THEN [tm EXCEPT !.heartbeat =
             IF heartbeat_loop_continues(res)
             THEN Some(t + conf[n].events.heartbeat_interval) ELSE None]
    ELSE IF op = "events"
    THEN [tm EXCEPT !.sets[set_index(n, typs)] =
             Some(t + conf[n].events.sets[set_index(n, typs)].interval)]
    ELSE tm

InitSt ==
    [cache |-> <<>>, uplink_id |-> 0, uplink_context |-> <<>>,
     mesh_channel |-> 0, last_timestamp |-> None, sock |-> InitSock]

(* what a handler has sent so far: the commands put on the command channel *)
(* of the mesh concentratord and of the device concentratord, the events   *)
(* published to the forwarder, the commands executed, the frames the mesh  *)
(* radio accepted, and the replies sent to the forwarder                   *)
NoIo ==
    [mesh |-> <<>>, dev |-> <<>>, fwd |-> <<>>, exec |-> <<>>, aired |-> <<>>,
     rep |-> <<>>]

(* the result of a handler: the statics, what was sent, Ok or Err *)
Done(s, io, res) == [s |-> s, io |-> io, res |-> res]

(***************************************************************************)
(* src/src/mesh.rs: the hopper and the uplink-context store                *)
(***************************************************************************)
(* a hopper that does not store the cursor it moved *)
get_mesh_frequency_stuck(n, mesh_channel) ==
    Let(conf[n].mesh.frequencies, LAMBDA frequencies :
    IF frequencies = <<>>
    THEN [res |-> Err("No mesh frequencies are configured"),
          mesh_channel |-> mesh_channel]
    ELSE Let(IF mesh_channel + 1 >= Len(frequencies) THEN 0
             ELSE mesh_channel + 1, LAMBDA c :
         [res |-> Ok(frequencies[c + 1]), mesh_channel |-> mesh_channel]))

(* get_mesh_frequency: [res, mesh_channel] *)
get_mesh_frequency(n, mesh_channel) ==
    Let(conf[n].mesh.frequencies, LAMBDA frequencies :
    IF frequencies = <<>>
    THEN [res |-> Err("No mesh frequencies are configured"),
          mesh_channel |-> mesh_channel]
    ELSE Let(IF mesh_channel + 1 >= Len(frequencies) THEN 0
             ELSE mesh_channel + 1, LAMBDA c :
         [res |-> Ok(frequencies[c + 1]), mesh_channel |-> c]))

MaxUplinkId == 4095

(* a counter that goes from 4095 to 1 *)
get_uplink_id_skips_zero(uplink_id) ==
    IF uplink_id + 1 > MaxUplinkId THEN 1 ELSE uplink_id + 1

get_uplink_id(uplink_id) == IF uplink_id + 1 > MaxUplinkId THEN 0 ELSE uplink_id + 1

(* store_uplink_context: [uplink_id, uplink_context] *)
store_uplink_context(uplink_id, uplink_context, ctx) ==
    Let(get_uplink_id(uplink_id), LAMBDA id :
    [uplink_id |-> id, uplink_context |-> (id :> ctx) @@ uplink_context])

get_uplink_context(uplink_context, uplink_id) ==
    IF uplink_id \in DOMAIN uplink_context
    THEN Ok(uplink_context[uplink_id])
    ELSE Err("No uplink context for uplink_id")

(***************************************************************************)
(* src/src/backend.rs: commands to the two concentratords.  The reply of a *)
(* concentratord is an input: Ok (enqueued), Nack (a tx ack without an Ok  *)
(* item) or Timeout (no reply within 100 ms).                              *)
(***************************************************************************)
RadioReply == {"Ok", "Nack", "Timeout"}

tx_ack_of(pl, reply) ==
    [gateway_id |-> pl.gateway_id,
     downlink_id |-> pl.downlink_id,
     items |-> [i \in 1..Len(pl.items) |->
                    IF reply = "Ok" /\ i = 1 THEN "Ok"
                    ELSE IF reply = "Ok" THEN "Ignored"
                    ELSE "TxFreq"]]

(* helpers::format_downlink fails on an item without tx_info, modulation   *)
(* or timing                                                               *)
format_downlink(pl) ==
    IF \E i \in 1..Len(pl.items) :
          \/ pl.items[i].tx_info = None
          \/ pl.items[i].tx_info.modulation = None
          \/ pl.items[i].tx_info.timing = None
    THEN Err("tx_info, modulation or timing is None")
    ELSE Ok("unit")

(* the error of zmq_send on a REQ socket that awaits a reply (EFSM) *)
EFSM == "Operation cannot be accomplished in current state"

(* a socket that sends a request whatever its state *)
sock_send_relaxed(sk) == Ok("unit")

(* sock.send on the REQ socket in state sk: it fails on a socket that      *)
(* still awaits the reply of an earlier request                            *)
sock_send(sk) == IF sk = "AwaitingReply" THEN Err(EFSM) ELSE Ok("unit")

(* send_zmq_command on the REQ socket in state sk: [res, sock].  The send   *)
(* fails on a socket that still awaits the reply of an earlier command;    *)
(* after the poll of 100 ms runs out the reply is never received           *)
send_zmq_command(sk, reply) ==
    IF ~sock_send(sk).ok THEN [res |-> sock_send(sk), sock |-> sk]
    ELSE IF reply = "Timeout"
    THEN [res |-> Err("Could not read down response"), sock |-> "AwaitingReply"]
    ELSE [res |-> Ok(reply), sock |-> "Ready"]

(* backend::mesh: [res, sent, aired, sock]; sent is the command put on the *)
(* command channel of the mesh concentratord                               *)
backend_mesh(sk, pl, reply) ==
    IF ~format_downlink(pl).ok
    THEN [res |-> format_downlink(pl), sent |-> <<>>, aired |-> <<>>, sock |-> sk]
    ELSE Let(send_zmq_command(sk, reply), LAMBDA resp_b :
         [res |-> IF ~resp_b.res.ok THEN resp_b.res
                  ELSE tx_ack_to_err(tx_ack_of(pl, resp_b.res.v)),
          sent |-> <<pl>>,
          aired |-> IF resp_b.res = Ok("Ok") THEN <<pl.items[1].phy_payload>>
                    ELSE <<>>,
          sock |-> resp_b.sock])

(* backend::send_downlink: [res, sent, sock]; res holds the tx ack *)
backend_send_downlink(sk, pl, reply) ==
    IF ~format_downlink(pl).ok
    THEN [res |-> format_downlink(pl), sent |-> <<>>, sock |-> sk]
    ELSE Let(send_zmq_command(sk, reply), LAMBDA resp_b :
         [res |-> IF ~resp_b.res.ok THEN resp_b.res
                  ELSE Ok(tx_ack_of(pl, resp_b.res.v)),
          sent |-> <<pl>>,
          sock |-> resp_b.sock])

Immediately == [kind |-> "Immediately"]

(* the DownlinkFrame every path of the engine builds around a mesh packet  *)
mesh_downlink_frame(n, downlink_id, phy_payload, frequency) ==
    [downlink_id |-> downlink_id,
     gateway_id |-> <<>>,
     items |-> <<[phy_payload |-> phy_payload,
                  tx_info |-> [frequency |-> frequency,
                               power |-> conf[n].mesh.tx_power,
                               modulation |->
                                   data_rate_to_gw_modulation(conf[n].mesh.data_rate, FALSE),
                               timing |-> Immediately,
                               context |-> <<>>]]>>]

(* packet.to_vec()?, get_mesh_frequency()?, backend::mesh(): the tail of   *)
(* every path that transmits a mesh packet.  env.mesh_reply[k] is the      *)
(* reply of the mesh concentratord to the k-th command of the handler run. *)
transmit_mesh_packet(n, s, io, packet, env) ==
    Let(MeshPacket_to_vec(packet), LAMBDA b :
    IF ~b.ok THEN Done(s, io, b)
    ELSE Let(get_mesh_frequency(n, s.mesh_channel), LAMBDA f :
         Let([s EXCEPT !.mesh_channel = f.mesh_channel], LAMBDA s1 :
         IF ~f.res.ok THEN Done(s1, io, f.res)
         ELSE Let(backend_mesh(
                     s.sock.mesh_concentratord,
                     mesh_downlink_frame(n, env.rnd, b.v, f.res.v),
                     env.mesh_reply[Len(io.mesh) + 1]), LAMBDA m :
              Done([s1 EXCEPT !.sock.mesh_concentratord = m.sock],
                   [io EXCEPT !.mesh = @ \o m.sent, !.aired = @ \o m.aired],
                   m.res)))))

(***************************************************************************)
(* src/src/commands.rs and src/src/events.rs                               *)
(***************************************************************************)
(* the timestamp test letting an equal timestamp pass *)
timestamp_decremented(last_timestamp, timestamp) ==
    last_timestamp # None /\ last_timestamp.v > timestamp

(* the test of execute_commands on the last accepted timestamp *)
timestamp_not_incremented(last_timestamp, timestamp) ==
    last_timestamp # None /\ last_timestamp.v >= timestamp

(* the stdout of the command configured for a type, run on a value *)
Stdout(typ, value) == <<"stdout", typ, value>>

(* execute_proprietary: fails when the type is not configured, when its    *)
(* argv is empty or when the process cannot be spawned                     *)
execute_proprietary(n, typ, value, env) ==
    IF typ \notin DOMAIN conf[n].commands THEN Err("Command type is not configured")
    ELSE IF conf[n].commands[typ] = <<>> THEN Err("Command for command type is empty")
    ELSE IF typ \in env.spawn_fail THEN Err("spawn error")
    ELSE Ok([kind |-> "Proprietary", t |-> typ, v |-> Stdout(typ, value)])

RECURSIVE execute_loop_reversed(_, _, _, _)
(* a loop that puts every result in front of the earlier ones *)
execute_loop_reversed(n, commands, i, env) ==
    IF i > Len(commands) THEN <<>>
    ELSE Let(execute_proprietary(n, commands[i].t, commands[i].v, env), LAMBDA resp :
         execute_loop_reversed(n, commands, i + 1, env)
         \o (IF resp.ok THEN <<resp.v>> ELSE <<>>))

RECURSIVE execute_loop_breaks(_, _, _, _)
(* a loop that ends at the first command that fails *)
execute_loop_breaks(n, commands, i, env) ==
    IF i > Len(commands) THEN <<>>
    ELSE Let(execute_proprietary(n, commands[i].t, commands[i].v, env), LAMBDA resp :
         IF resp.ok THEN <<resp.v>> \o execute_loop_breaks(n, commands, i + 1, env)
         ELSE <<>>)

RECURSIVE execute_loop(_, _, _, _)
(* the loop of execute_commands: the events of the commands that succeed *)
execute_loop(n, commands, i, env) ==
    IF i > Len(commands) THEN <<>>
    ELSE Let(execute_proprietary(n, commands[i].t, commands[i].v, env), LAMBDA resp :
         (IF resp.ok THEN <<resp.v>> ELSE <<>>)
         \o execute_loop(n, commands, i + 1, env))

(* execute_commands: [res, last_timestamp, exec] *)
execute_commands(n, last_timestamp, pl, env) ==
    IF timestamp_not_incremented(last_timestamp, pl.timestamp)
    THEN [res |-> Err("Command timestamp did not increment"),
          last_timestamp |-> last_timestamp, exec |-> <<>>]
    ELSE [res |-> Ok(execute_loop(n, pl.commands, 1, env)),
          last_timestamp |-> Some(pl.timestamp),
          exec |-> pl.commands]

(* events::send_events *)
send_events(n, s, io, events, env) ==
    Let([mhdr |-> [payload_type |-> "Event", hop_count |-> 1],
         payload |-> [timestamp |-> env.now,
                      relay_id |-> RELAY_ID[n],
                      events |-> events],
         mic |-> None], LAMBDA packet :
    Let(MeshPacket_encrypt(packet, get_encryption_key(NullKey)), LAMBDA enc :
    IF ~enc.ok THEN Done(s, io, enc)
    ELSE Let(MeshPacket_set_mic(
                 enc.v, get_signing_key(conf[n].mesh.signing_key)), LAMBDA signed :
         IF ~signed.ok THEN Done(s, io, signed)
         ELSE transmit_mesh_packet(n, s, io, signed.v, env))))

(* events::get_event *)
get_event(n, typ, env) ==
    IF typ \notin DOMAIN conf[n].events.commands
    THEN Err("Event type is not configured")
    ELSE IF conf[n].events.commands[typ] = <<>>
    THEN Err("Command for event type is empty")
    ELSE IF typ \in env.spawn_fail THEN Err("spawn error")
    ELSE Ok([kind |-> "Proprietary", t |-> typ, v |-> Stdout(typ, <<>>)])

RECURSIVE get_events(_, _, _, _)
(* the loop of report_events from type i on: the events, or the first      *)
(* error                                                                   *)
get_events(n, typs, i, env) ==
    IF i > Len(typs) THEN Ok(<<>>)
    ELSE Let(get_event(n, typs[i], env), LAMBDA e :
         IF ~e.ok THEN e
         ELSE Let(get_events(n, typs, i + 1, env), LAMBDA rest :
              IF ~rest.ok THEN rest ELSE Ok(<<e.v>> \o rest.v)))

(* events::report_events *)
report_events(n, s, typs, env) ==
    Let(get_events(n, typs, 1, env), LAMBDA events :
    IF ~events.ok THEN Done(s, NoIo, events)
    ELSE send_events(n, s, NoIo, events.v, env))

(* events::report_heartbeat *)
report_heartbeat(n, s, env) ==
    send_events(n, s, NoIo, <<[kind |-> "Heartbeat", relay_path |-> <<>>]>>, env)

RECURSIVE mesh_command_items(_, _)
(* the filter_map of send_mesh_command: the items of a MeshCommand that    *)
(* carry a command, from item i on, as Proprietary commands; the command   *)
(* type is cast to u8                                                      *)
mesh_command_items(commands, i) ==
    IF i > Len(commands) THEN <<>>
    ELSE (IF commands[i] = None THEN <<>>
          ELSE <<[kind |-> "Proprietary", t |-> commands[i].command_type % 256,
                  v |-> commands[i].payload]>>)
         \o mesh_command_items(commands, i + 1)

(* mesh::send_mesh_command: a Command packet for relay pl.relay_id (the    *)
(* bytes of its hex string), encrypted, then signed, then transmitted      *)
send_mesh_command(n, s, io, pl, env) ==
    IF Len(pl.relay_id) # 4 THEN Done(s, io, Err("Invalid string length"))
    ELSE
    Let([mhdr |-> [payload_type |-> "Command", hop_count |-> 1],
         payload |-> [timestamp |-> env.now,
                      relay_id |-> pl.relay_id,
                      commands |-> mesh_command_items(pl.commands, 1)],
         mic |-> None], LAMBDA packet :
    Let(MeshPacket_encrypt(
            packet, get_encryption_key(conf[n].mesh.root_key)), LAMBDA enc :
    IF ~enc.ok THEN Done(s, io, enc)
    ELSE Let(MeshPacket_set_mic(enc.v, signing_key_of(n)), LAMBDA signed :
         IF ~signed.ok THEN Done(s, io, signed)
         ELSE transmit_mesh_packet(n, s, io, signed.v, env))))

(***************************************************************************)
(* src/src/mesh.rs: relay_mesh_packet                                      *)
(***************************************************************************)
(* the hop count test allowing one hop more than the maximum *)
max_hop_count_off_by_one(n, hop_count) == hop_count > conf[n].mesh.max_hop_count + 1

(* the test of relay_mesh_packet on the incremented hop count *)
max_hop_count_exceeded(n, hop_count) == hop_count > conf[n].mesh.max_hop_count

(* `rssi as i16` of an i32 *)
as_i16(x) == ((x + 32768) % 65536) - 32768

(* `snr as i8` of an f32 holding a whole number: the cast saturates *)
as_i8(x) == IF x > 127 THEN 127 ELSE IF x < -128 THEN -128 ELSE x

(* the relay path entry a relay appends for a reception *)
relay_path_entry(n, rx_info) ==
    [relay_id |-> RELAY_ID[n], rssi |-> as_i16(rx_info.rssi), snr |-> as_i8(rx_info.snr)]

(* the entry put at the head of the relay path of every Heartbeat *)
prepend_relay_path(events, entry) ==
    [i \in 1..Len(events) |->
        IF events[i].kind = "Heartbeat"
        THEN [events[i] EXCEPT !.relay_path = <<entry>> \o @]
        ELSE events[i]]

(* the loop over the events of a re-relayed Event payload *)
append_relay_path(events, entry) ==
    [i \in 1..Len(events) |->
        IF events[i].kind = "Heartbeat"
        THEN [events[i] EXCEPT !.relay_path = Append(@, entry)]
        ELSE events[i]]

(* the arm of relay_mesh_packet for a Downlink addressed to this relay *)
unwrap_downlink(n, s, io, pl, env) ==
    Let(index_to_tx_power(n, pl.metadata.tx_power), LAMBDA power :
    Let(dr_to_modulation(n, pl.metadata.dr, TRUE), LAMBDA modulation :
    Let(get_uplink_context(s.uplink_context, pl.metadata.uplink_id), LAMBDA context :
    IF ~power.ok THEN Done(s, io, power)
    ELSE IF ~modulation.ok THEN Done(s, io, modulation)
    ELSE IF ~context.ok THEN Done(s, io, context)
    ELSE Let([downlink_id |-> env.rnd,
              gateway_id |-> GATEWAY_ID[n],
              items |-> <<[phy_payload |-> pl.phy_payload,
                           tx_info |->
                              [frequency |-> pl.metadata.frequency,
                               power |-> power.v,
                               timing |-> [kind |-> "Delay",
                                           delay |-> Some(pl.metadata.delay)],
                               modulation |-> modulation.v,
                               context |-> context.v]]>>], LAMBDA down :
         Let(backend_send_downlink(s.sock.concentratord, down, env.dev_reply), LAMBDA r :
         Done([s EXCEPT !.sock.concentratord = r.sock],
              [io EXCEPT !.dev = @ \o r.sent],
              IF ~r.res.ok THEN r.res ELSE tx_ack_to_err(r.res.v)))))))

(* the arm of relay_mesh_packet for a Command addressed to this relay *)
execute_and_reply(n, s, io, pl, env) ==
    Let(execute_commands(n, s.last_timestamp, pl, env), LAMBDA x :
    Let([s EXCEPT !.last_timestamp = x.last_timestamp], LAMBDA s1 :
    Let([io EXCEPT !.exec = @ \o x.exec], LAMBDA io1 :
    IF ~x.res.ok THEN Done(s1, io1, x.res)
    ELSE IF x.res.v # <<>> THEN send_events(n, s1, io1, x.res.v, env)
    ELSE Done(s1, io1, Ok("unit")))))

(* the tail of relay_mesh_packet: increment the hop count, encrypt, sign,  *)
(* test the hop count, transmit                                            *)
re_relay(n, s, io, packet, env) ==
    Let([packet EXCEPT !.mhdr.hop_count = @ + 1], LAMBDA p1 :
    Let(MeshPacket_encrypt(p1, get_encryption_key(conf[n].mesh.root_key)), LAMBDA enc :
    IF ~enc.ok THEN Done(s, io, enc)
    ELSE Let(MeshPacket_set_mic(enc.v, signing_key_of(n)), LAMBDA signed :
         IF ~signed.ok THEN Done(s, io, signed)
         ELSE IF max_hop_count_exceeded(n, signed.v.mhdr.hop_count)
         THEN Done(s, io, Err("Max hop count exceeded"))
         ELSE transmit_mesh_packet(n, s, io, signed.v, env))))

(* a gateway that takes no packet for its own *)
never_the_sender(n, relay_id) == FALSE

(* the test `pl.relay_id == relay_id` of the Uplink and the Event arm:     *)
(* this relay was the sender                                               *)
was_the_sender(n, relay_id) == relay_id = RELAY_ID[n]

relay_mesh_packet(n, s, io, pl, packet, env) ==
    IF pl.rx_info = None THEN Done(s, io, Err("rx_info is None"))
    ELSE
    CASE packet.mhdr.payload_type = "Uplink" ->
            IF was_the_sender(n, packet.payload.relay_id)
            THEN Done(s, io, Ok("unit"))
            ELSE re_relay(n, s, io, packet, env)
      [] packet.mhdr.payload_type = "Downlink" ->
            IF packet.payload.relay_id = RELAY_ID[n]
            THEN unwrap_downlink(n, s, io, packet.payload, env)
            ELSE re_relay(n, s, io, packet, env)
      [] packet.mhdr.payload_type = "Event" ->
            IF was_the_sender(n, packet.payload.relay_id)
            THEN Done(s, io, Ok("unit"))
            ELSE re_relay(n, s, io,
                          [packet EXCEPT !.payload.events =
                              append_relay_path(@, relay_path_entry(n, pl.rx_info))],
                          env)
      [] packet.mhdr.payload_type = "Command" ->
            IF packet.payload.relay_id = RELAY_ID[n]
            THEN execute_and_reply(n, s, io, packet.payload, env)
            ELSE re_relay(n, s, io, packet, env)

(***************************************************************************)
(* src/src/mesh.rs: the Border Gateway's arms and handle_mesh              *)
(***************************************************************************)
CTX_PREFIX == <<1, 2, 3>>

(* u16::to_be_bytes *)
to_be_bytes(u) == <<u \div 256, u % 256>>

(* u16::from_be_bytes *)
from_be_bytes(b) == b[1] * 256 + b[2]

(* the context proxy_uplink_mesh_packet gives a relayed uplink *)
relayed_uplink_context(relay_id, uplink_id) ==
    CTX_PREFIX \o relay_id \o to_be_bytes(uplink_id)

(* proxy::send_event: the event is published to the forwarder *)
proxy_send_event(s, io, event) ==
    Done(s, [io EXCEPT !.fwd = Append(@, event)], Ok("unit"))

proxy_uplink_mesh_packet(n, s, io, pl, packet) ==
    Let(packet.payload, LAMBDA mesh_pl :
    Let(IF pl.rx_info = None THEN None
        ELSE [pl.rx_info EXCEPT
                 !.gateway_id = GATEWAY_ID[n],
                 !.metadata = [hop_count |-> packet.mhdr.hop_count,
                               relay_id |-> mesh_pl.relay_id],
                 !.snr = mesh_pl.metadata.snr,
                 !.rssi = mesh_pl.metadata.rssi,
                 !.context = relayed_uplink_context(
                                 mesh_pl.relay_id, mesh_pl.metadata.uplink_id)], LAMBDA rx_info :
    Let(chan_to_frequency(n, mesh_pl.metadata.channel), LAMBDA frequency :
    Let(dr_to_modulation(n, mesh_pl.metadata.dr, FALSE), LAMBDA modulation :
    IF pl.tx_info # None /\ ~frequency.ok THEN Done(s, io, frequency)
    ELSE IF pl.tx_info # None /\ ~modulation.ok THEN Done(s, io, modulation)
    ELSE proxy_send_event(s, io,
             [kind |-> "UplinkFrame",
              phy_payload |-> mesh_pl.phy_payload,
              tx_info |-> IF pl.tx_info = None THEN None
                          ELSE [frequency |-> frequency.v,
                                modulation |-> modulation.v],
              rx_info |-> rx_info])))))

proxy_event_mesh_packet(n, s, io, pl, packet) ==
    proxy_send_event(s, io,
        [kind |-> "Mesh",
         gateway_id |-> GATEWAY_ID[n],
         relay_id |-> packet.payload.relay_id,
         time |-> packet.payload.timestamp,
         events |-> packet.payload.events])

(* a Border Gateway relaying what it receives, as a Relay Gateway does *)
border_relays(n, s, io, pl, packet, env) == relay_mesh_packet(n, s, io, pl, packet, env)

(* the arm of handle_mesh for a Border Gateway *)
border_mesh_packet(n, s, io, pl, packet, env) ==
    CASE packet.mhdr.payload_type = "Uplink" -> proxy_uplink_mesh_packet(n, s, io, pl, packet)
      [] packet.mhdr.payload_type = "Event" -> proxy_event_mesh_packet(n, s, io, pl, packet)
      [] OTHER -> Done(s, io, Ok("unit"))

handle_mesh(n, s, io, pl, env) ==
    Let(MeshPacket_from_slice(pl.phy_payload), LAMBDA packet :
    IF ~packet.ok THEN Done(s, io, packet)
    ELSE Let(MeshPacket_validate_mic(packet.v, signing_key_of(n)), LAMBDA valid :
         IF ~valid.ok THEN Done(s, io, valid)
         ELSE IF ~valid.v THEN Done(s, io, Ok("unit"))
         ELSE Let(Cache_add(s.cache, PayloadCache_from(packet.v)), LAMBDA c :
              Let([s EXCEPT !.cache = c.deque], LAMBDA s1 :
              Let(MeshPacket_decrypt(
                      packet.v, get_encryption_key(conf[n].mesh.root_key)), LAMBDA dec :
              IF ~c.added THEN Done(s1, io, Ok("unit"))
              ELSE IF ~dec.ok THEN Done(s1, io, dec)
              ELSE IF conf[n].mesh.border_gateway
              THEN border_mesh_packet(n, s1, io, pl, dec.v, env)
              ELSE relay_mesh_packet(n, s1, io, pl, dec.v, env))))))

(* phy_payload.first() & 0xe0 == 0xe0 *)
is_proprietary(phy_payload) == phy_payload.mhdr \div 32 = 7

(* backend::handle_mesh_event_msg for an UplinkFrame event *)
handle_mesh_event_msg(n, s, pl, env) ==
    IF pl.rx_info # None /\ pl.rx_info.crc_status # "CrcOk"
    THEN Done(s, NoIo, Ok("unit"))
    ELSE IF is_proprietary(pl.phy_payload)
    THEN handle_mesh(n, s, NoIo, pl, env)
    ELSE Done(s, NoIo, Ok("unit"))

(***************************************************************************)
(* src/src/mesh.rs: device uplinks and forwarder downlinks                 *)
(***************************************************************************)
(* helpers::format_uplink fails without tx_info, rx_info or modulation *)
format_uplink(pl) ==
    IF pl.tx_info = None THEN Err("tx_info is None")
    ELSE IF pl.rx_info = None THEN Err("rx_info is None")
    ELSE IF pl.tx_info.modulation = None THEN Err("modulation is None")
    ELSE Ok("unit")

proxy_uplink_lora_packet(n, s, io, pl) ==
    IF ~format_uplink(pl).ok THEN Done(s, io, format_uplink(pl))
    ELSE proxy_send_event(s, io, pl)

relay_uplink_lora_packet(n, s, io, pl, env) ==
    IF pl.rx_info = None THEN Done(s, io, Err("rx_info is None"))
    ELSE IF pl.tx_info = None THEN Done(s, io, Err("tx_info is None"))
    ELSE IF pl.tx_info.modulation = None THEN Done(s, io, Err("modulation is None"))
    ELSE Let(store_uplink_context(s.uplink_id, s.uplink_context,
                                  pl.rx_info.context), LAMBDA st :
         Let([s EXCEPT !.uplink_id = st.uplink_id,
                       !.uplink_context = st.uplink_context], LAMBDA s1 :
         Let(modulation_to_dr(n, pl.tx_info.modulation), LAMBDA dr :
         Let(frequency_to_chan(n, pl.tx_info.frequency), LAMBDA channel :
         IF ~dr.ok THEN Done(s1, io, dr)
         ELSE IF ~channel.ok THEN Done(s1, io, channel)
         ELSE Let([mhdr |-> [payload_type |-> "Uplink", hop_count |-> 1],
                   payload |->
                      [metadata |-> [uplink_id |-> st.uplink_id,
                                     dr |-> dr.v,
                                     channel |-> channel.v,
                                     rssi |-> as_i16(pl.rx_info.rssi),
                                     snr |-> as_i8(pl.rx_info.snr)],
                       relay_id |-> RELAY_ID[n],
                       phy_payload |-> pl.phy_payload],
                   mic |-> None], LAMBDA packet :
              Let(MeshPacket_set_mic(packet, signing_key_of(n)), LAMBDA signed :
              IF ~signed.ok THEN Done(s1, io, signed)
              ELSE transmit_mesh_packet(n, s1, io, signed.v, env)))))))

handle_uplink(n, s, io, pl, env) ==
    IF conf[n].mesh.border_gateway THEN proxy_uplink_lora_packet(n, s, io, pl)
    ELSE relay_uplink_lora_packet(n, s, io, pl, env)

(* the test of handle_event_msg on the flag *)
ignore_direct_uplinks(n) == conf[n].mesh.border_gateway_ignore_direct_uplinks

(* a filter that lets every frame pass *)
lrwn_filters_pass(env) == TRUE

(* lrwn_filters::matches(&v.phy_payload, filters): the verdict of the      *)
(* crate on the frame is an input of the run                               *)
lrwn_filters_matches(env) == env.filter_matches

(* backend::handle_event_msg for an UplinkFrame event of the device radio *)
handle_event_msg(n, s, pl, env) ==
    IF pl.rx_info = None THEN Done(s, NoIo, Ok("unit"))
    ELSE IF pl.rx_info.crc_status # "CrcOk" THEN Done(s, NoIo, Ok("unit"))
    ELSE IF is_proprietary(pl.phy_payload) THEN Done(s, NoIo, Ok("unit"))
    ELSE IF ignore_direct_uplinks(n) THEN Done(s, NoIo, Ok("unit"))
    ELSE IF ~lrwn_filters_matches(env) THEN Done(s, NoIo, Ok("unit"))
    ELSE IF ~format_uplink(pl).ok THEN Done(s, NoIo, format_uplink(pl))
    ELSE handle_uplink(n, s, NoIo, pl, env)

proxy_downlink_lora_packet(n, s, io, pl, env) ==
    IF ~format_downlink(pl).ok THEN Done(s, io, format_downlink(pl))
    ELSE Let(backend_send_downlink(s.sock.concentratord, pl, env.dev_reply), LAMBDA r :
         Done([s EXCEPT !.sock.concentratord = r.sock],
              [io EXCEPT !.dev = @ \o r.sent], r.res))

(* the mesh Downlink packet relay_downlink_lora_packet builds and signs    *)
(* for one item; every failure is one the code propagates with `?`         *)
downlink_mesh_packet(n, item) ==
    IF item.tx_info = None THEN Err("tx_info is None")
    ELSE IF item.tx_info.modulation = None THEN Err("modulation is None")
    ELSE IF item.tx_info.timing = None THEN Err("timing is None")
    ELSE IF item.tx_info.timing.kind # "Delay" THEN Err("Only Delay timing is supported")
    ELSE IF Len(item.tx_info.context) < Len(CTX_PREFIX) + 6
    THEN Err("context does not contain enough bytes")
    ELSE Let(SubSeq(item.tx_info.context, Len(CTX_PREFIX) + 1, Len(CTX_PREFIX) + 6), LAMBDA ctx :
         Let(modulation_to_dr(n, item.tx_info.modulation), LAMBDA dr :
         Let(tx_power_to_index(n, item.tx_info.power), LAMBDA tx_power :
         Let(IF item.tx_info.timing.delay = None THEN 0
             ELSE item.tx_info.timing.delay.v % 256, LAMBDA delay :
         IF ~dr.ok THEN dr
         ELSE IF ~tx_power.ok THEN tx_power
         ELSE MeshPacket_set_mic(
                 [mhdr |-> [payload_type |-> "Downlink", hop_count |-> 1],
                  payload |->
                     [phy_payload |-> item.phy_payload,
                      relay_id |-> SubSeq(ctx, 1, 4),
                      metadata |-> [uplink_id |-> from_be_bytes(SubSeq(ctx, 5, 6)),
                                    dr |-> dr.v,
                                    frequency |-> item.tx_info.frequency,
                                    tx_power |-> tx_power.v,
                                    delay |-> delay]],
                  mic |-> None],
                 signing_key_of(n))))))

(* the DownlinkTxAck relay_downlink_lora_packet returns *)
relayed_tx_ack(pl, tx_ack_items) ==
    [gateway_id |-> pl.gateway_id,
     downlink_id |-> pl.downlink_id,
     items |-> tx_ack_items]

(* an item's status left as it was whatever backend::mesh returned *)
tx_ack_status_unset(res) == IF res.ok THEN "Ok" ELSE "Ignored"

(* the status relay_downlink_lora_packet gives an item for the result of   *)
(* backend::mesh                                                           *)
tx_ack_status(res) == IF res.ok THEN "Ok" ELSE "InternalError"

RECURSIVE relay_downlink_loop(_, _, _, _, _, _, _)
(* the loop of relay_downlink_lora_packet from item i on *)
relay_downlink_loop(n, s, io, pl, i, tx_ack_items, env) ==
    IF i > Len(pl.items) THEN Done(s, io, Ok(relayed_tx_ack(pl, tx_ack_items)))
    ELSE Let(downlink_mesh_packet(n, pl.items[i]), LAMBDA packet :
         IF ~packet.ok THEN Done(s, io, packet)
         ELSE Let(MeshPacket_to_vec(packet.v), LAMBDA b :
              Let(get_mesh_frequency(n, s.mesh_channel), LAMBDA f :
              Let([s EXCEPT !.mesh_channel = f.mesh_channel], LAMBDA s1 :
              IF ~b.ok THEN Done(s, io, b)
              ELSE IF ~f.res.ok THEN Done(s1, io, f.res)
              ELSE Let(backend_mesh(
                          s.sock.mesh_concentratord,
                          mesh_downlink_frame(n, pl.downlink_id, b.v, f.res.v),
                          env.mesh_reply[Len(io.mesh) + 1]), LAMBDA m :
                   Let([io EXCEPT !.mesh = @ \o m.sent,
                                  !.aired = @ \o m.aired], LAMBDA io1 :
                   Let([s1 EXCEPT !.sock.mesh_concentratord = m.sock], LAMBDA s2 :
                   IF m.res.ok
                   THEN Done(s2, io1,
                             Ok(relayed_tx_ack(
                                   pl, [tx_ack_items EXCEPT
                                           ![i] = tx_ack_status(m.res)])))
                   ELSE relay_downlink_loop(
                           n, s2, io1, pl, i + 1,
                           [tx_ack_items EXCEPT ![i] = tx_ack_status(m.res)],
                           env))))))))

relay_downlink_lora_packet(n, s, io, pl, env) ==
    relay_downlink_loop(n, s, io, pl, 1, [i \in 1..Len(pl.items) |-> "Ignored"], env)

(* the context test without the test of the length *)
has_ctx_prefix(context) ==
    /\ Len(context) >= Len(CTX_PREFIX)
    /\ SubSeq(context, 1, Len(CTX_PREFIX)) = CTX_PREFIX

(* the test of handle_downlink on the context of the first item *)
is_relayed_context(context) ==
    /\ Len(context) = Len(CTX_PREFIX) + 6
    /\ SubSeq(context, 1, Len(CTX_PREFIX)) = CTX_PREFIX

handle_downlink(n, s, pl, env) ==
    IF pl.items # <<>> /\ pl.items[1].tx_info = None
    THEN Done(s, NoIo, Err("tx_info is None"))
    ELSE IF pl.items # <<>> /\ ~is_relayed_context(pl.items[1].tx_info.context)
    THEN proxy_downlink_lora_packet(n, s, NoIo, pl, env)
    ELSE relay_downlink_lora_packet(n, s, NoIo, pl, env)

(***************************************************************************)
(* src/src/proxy.rs: the command loop of the Border Gateway.  A message of *)
(* the forwarder is a sequence of frames; the first is the command, a      *)
(* string or bytes that are not UTF-8, the second the body, a protobuf     *)
(* message or bytes that decode to nothing.  rep_sock is the state of the  *)
(* REP socket: Ready to receive, or MustReply after it received a message  *)
(* and before it sent the reply.                                           *)
(***************************************************************************)
Utf8(str) == [kind |-> "Utf8", s |-> str]

NotUtf8 == [kind |-> "NotUtf8"]

Garbage == [kind |-> "Garbage"]

(* no message waits at the socket *)
NoMessage == <<>>

(* a body that encodes the message v of type kind *)
Body(kind, v) == [kind |-> kind, v |-> v]

(* the empty body *)
EmptyBody == [kind |-> "Empty"]

(* the decoding of a body as the message type kind *)
decode(kind, body) ==
    IF body.kind = kind THEN Ok(body.v) ELSE Err("failed to decode Protobuf message")

(* read_command: [res, rep_sock].  The poll finds nothing to read when no  *)
(* message is waiting and when the socket still owes a reply               *)
read_command(rep_sock, msg) ==
    IF rep_sock = "MustReply" \/ msg = NoMessage
    THEN [res |-> Ok([kind |-> "Timeout"]), rep_sock |-> rep_sock]
    ELSE [res |->
            IF Len(msg) # 2 THEN Err("Command must have two frames")
            ELSE IF msg[1] = NotUtf8 THEN Err("invalid utf-8 sequence")
            ELSE IF msg[1].s = "down"
            THEN Let(decode("DownlinkFrame", msg[2]), LAMBDA v :
                 IF v.ok THEN Ok([kind |-> "Downlink", v |-> v.v]) ELSE v)
            ELSE IF msg[1].s = "config"
            THEN Let(decode("GatewayConfiguration", msg[2]), LAMBDA v :
                 IF v.ok THEN Ok([kind |-> "Configuration", v |-> v.v]) ELSE v)
            ELSE IF msg[1].s = "gateway_id" THEN Ok([kind |-> "GatewayID"])
            ELSE Err("Unknown command"),
          rep_sock |-> "MustReply"]

(* backend::send_gateway_configuration *)
send_gateway_configuration(s, io, pl, env) ==
    Let(send_zmq_command(s.sock.concentratord, env.dev_reply), LAMBDA resp_b :
    Done([s EXCEPT !.sock.concentratord = resp_b.sock],
         [io EXCEPT !.dev = @ \o <<[kind |-> "SetGatewayConfiguration", v |-> pl]>>],
         IF resp_b.res.ok THEN Ok("unit") ELSE resp_b.res))

(* the end of a turn of command_loop: the reply goes out on the REP socket *)
send_reply(r, resp) ==
    Done([r.s EXCEPT !.sock.rep_sock = "Ready"],
         [r.io EXCEPT !.rep = @ \o <<resp>>],
         r.res)

(* one turn of command_loop *)
command_loop(n, s, msg, env) ==
    Let(read_command(s.sock.rep_sock, msg), LAMBDA cmd :
    Let([s EXCEPT !.sock.rep_sock = cmd.rep_sock], LAMBDA s1 :
    IF ~cmd.res.ok THEN Done(s1, NoIo, cmd.res)
    ELSE IF cmd.res.v.kind = "Timeout" THEN Done(s1, NoIo, Ok("unit"))
    ELSE IF cmd.res.v.kind = "Unknown" THEN send_reply(Done(s1, NoIo, Ok("unit")), EmptyBody)
    ELSE IF cmd.res.v.kind = "Configuration"
    THEN send_reply(send_gateway_configuration(s1, NoIo, cmd.res.v.v, env), EmptyBody)
    ELSE IF cmd.res.v.kind = "Downlink"
    THEN Let(handle_downlink(n, s1, cmd.res.v.v, env), LAMBDA r :
         send_reply(r, IF r.res.ok THEN Body("DownlinkTxAck", r.res.v) ELSE EmptyBody))
    ELSE send_reply(Done(s1, NoIo, Ok("unit")), Body("GatewayID", GATEWAY_ID[n]))))

(***************************************************************************)
(* The state machine: one action is one complete run of a handler          *)
(***************************************************************************)
Range(s) == {s[i] : i \in 1..Len(s)}

Init ==
    /\ PAYLOAD_CACHE = [n \in Node |-> InitSt.cache]
    /\ UPLINK_ID = [n \in Node |-> InitSt.uplink_id]
    /\ UPLINK_CONTEXT = [n \in Node |-> InitSt.uplink_context]
    /\ MESH_CHANNEL = [n \in Node |-> InitSt.mesh_channel]
    /\ LAST_TIMESTAMP = [n \in Node |-> InitSt.last_timestamp]
    /\ sock = [n \in Node |-> InitSt.sock]
    /\ loops = [n \in Node |-> InitLoops]
    /\ timers = [n \in Node |-> setup(n)]
    /\ now = 1
    /\ air = {}
    /\ fwd = {}
    /\ hist = [n \in Node |-> <<>>]
    /\ hopped = [n \in Node |-> <<>>]
    /\ flight = [n \in Flooders |-> {}]
    /\ CommandInit
    /\ encapsulated = [n \in Node |-> <<>>]
    /\ out = [node |-> "R", op |-> "init", input |-> None, env |-> None,
              pre |-> InitSt, after_error |-> FALSE, io |-> NoIo, res |-> Ok("unit")]

(* whether a handler run produced an outbound action: a command to one of  *)
(* the radios or an event to the forwarder                                 *)
acted(io) == io.mesh # <<>> \/ io.dev # <<>> \/ io.fwd # <<>>

(* the dedup key of a mesh reception that reaches the cache of handle_mesh *)
(* (CRC ok, proprietary, parsed, MIC valid), else None                     *)
received_key(n, pl) ==
    IF (pl.rx_info # None /\ pl.rx_info.crc_status # "CrcOk")
       \/ ~is_proprietary(pl.phy_payload)
       \/ ~MeshPacket_from_slice(pl.phy_payload).ok
    THEN None
    ELSE Let(MeshPacket_from_slice(pl.phy_payload).v, LAMBDA packet :
         Let(MeshPacket_validate_mic(packet, signing_key_of(n)), LAMBDA valid :
         IF valid.ok /\ valid.v THEN PayloadCache_from(packet) ELSE None))

(* the contexts of the UplinkFrame events among published events *)
uplink_contexts(events) ==
    {events[i].rx_info.context :
        i \in {j \in 1..Len(events) : events[j].kind = "UplinkFrame"
                                      /\ events[j].rx_info # None}}

(* the frequencies get_mesh_frequency returned in a handler run: every     *)
(* frequency it returns is that of the one item of a frame that goes to    *)
(* backend::mesh                                                           *)
returned_frequencies(sent) == [k \in 1..Len(sent) |-> sent[k].items[1].tx_info.frequency]

(* the copies in which the mesh radios of the other Flooders receive a     *)
(* frame that a Flooder transmits                                          *)
MaxCopies == 2

Copies == 1..MaxCopies

(* the copies on their way to Flooder m after a handler run of Flooder n:  *)
(* a reception takes one copy of the frame off the way to n, the one with  *)
(* the highest number, and every frame n transmitted sets out to every     *)
(* other Flooder in all its copies                                         *)
in_flight(way, m, n, op, pl, aired) ==
    IF m = n
    THEN IF op # "mesh" THEN way
         ELSE way \ {c \in way : /\ c[1] = pl.phy_payload
                                  /\ \A d \in way : d[1] = c[1] => d[2] <= c[2]}
    ELSE way \cup (Range(aired) \X Copies)

(* the statics of node n and the environment after a handler run r *)
Apply(n, op, pl, env, r) ==
    /\ PAYLOAD_CACHE' = [PAYLOAD_CACHE EXCEPT ![n] = r.s.cache]
    /\ UPLINK_ID' = [UPLINK_ID EXCEPT ![n] = r.s.uplink_id]
    /\ UPLINK_CONTEXT' = [UPLINK_CONTEXT EXCEPT ![n] = r.s.uplink_context]
    /\ MESH_CHANNEL' = [MESH_CHANNEL EXCEPT ![n] = r.s.mesh_channel]
    /\ LAST_TIMESTAMP' = [LAST_TIMESTAMP EXCEPT ![n] = r.s.last_timestamp]
    /\ sock' = [sock EXCEPT ![n] = r.s.sock]
    /\ loops' = IF op \in DOMAIN InitLoops
                THEN [loops EXCEPT ![n][op] =
                         [running |-> event_loop_continues(r.res),
                          failed |-> ~r.res.ok]]
                ELSE loops
    /\ timers' = [timers EXCEPT ![n] = sleep(n, @, op, pl, r.res, now)]
    /\ air' = air \cup Range(r.io.aired)
    /\ fwd' = fwd \cup uplink_contexts(r.io.fwd)
    /\ out' = [node |-> n, op |-> op, input |-> pl, env |-> env, pre |-> St(n),
               after_error |-> (op \in DOMAIN InitLoops /\ loops[n][op].failed),
               io |-> r.io, res |-> r.res]
    /\ now' = now
    /\ hopped' = IF n \in Hoppers
                 THEN [hopped EXCEPT ![n] = @ \o returned_frequencies(r.io.mesh)]
                 ELSE hopped
    /\ flight' = IF n \in Flooders
                 THEN [m \in Flooders |->
                          in_flight(flight[m], m, n, op, pl, r.io.aired)]
                 ELSE flight
    /\ UNCHANGED cmd_vars

(* the event loop of the mesh radio receives an UplinkFrame *)
MeshEvent(n, pl, env) ==
    \E r \in {handle_mesh_event_msg(n, St(n), pl, [env EXCEPT !.now = now])} :
    \E key \in {received_key(n, pl)} :
        /\ loops[n].mesh.running
        /\ Apply(n, "mesh", pl, env, r)
        /\ hist' = IF key = None THEN hist
                   ELSE [hist EXCEPT ![n] =
                             Append(@, [key |-> key, acted |-> acted(r.io)])]
        /\ encapsulated' = encapsulated

(* the event loop of the device radio receives an UplinkFrame *)
DeviceEvent(n, pl, env) ==
    Let(handle_event_msg(n, St(n), pl, [env EXCEPT !.now = now]), LAMBDA r :
    /\ loops[n].uplink.running
    /\ Apply(n, "uplink", pl, env, r)
    /\ hist' = hist
    /\ encapsulated' =
          IF r.io.mesh = <<>> THEN encapsulated
          ELSE [encapsulated EXCEPT ![n] =
                  Append(@, [uplink_id |->
                                MeshPacket_from_slice(
                                    r.io.mesh[1].items[1].phy_payload
                                ).v.payload.metadata.uplink_id,
                             context |-> pl.rx_info.context])])

(* one turn of the command loop of a Border Gateway, with the message of   *)
(* the forwarder that waits at its socket, if any                          *)
ForwarderCommand(n, msg, env) ==
    /\ conf[n].mesh.border_gateway
    /\ Apply(n, "command", msg, env,
             command_loop(n, St(n), msg, [env EXCEPT !.now = now]))
    /\ hist' = hist
    /\ encapsulated' = encapsulated

(* the forwarder sends a downlink command *)
ForwarderDownlink(n, pl, env) ==
    /\ Apply(n, "downlink", pl, env,
             handle_downlink(n, St(n), pl, [env EXCEPT !.now = now]))
    /\ hist' = hist
    /\ encapsulated' = encapsulated

(* one turn of the heartbeat loop of a Relay Gateway *)
ReportHeartbeat(n, env) ==
    /\ ~conf[n].mesh.border_gateway
    /\ timers[n].heartbeat # None
    /\ now >= timers[n].heartbeat.v
    /\ Apply(n, "heartbeat", None, env,
             report_heartbeat(n, St(n), [env EXCEPT !.now = now]))
    /\ hist' = hist
    /\ encapsulated' = encapsulated

(* one turn of an event-set loop of a Relay Gateway *)
ReportEvents(n, typs, env) ==
    /\ ~conf[n].mesh.border_gateway
    /\ \E k \in 1..Len(conf[n].events.sets) : conf[n].events.sets[k].events = typs
    /\ now >= timers[n].sets[set_index(n, typs)].v
    /\ Apply(n, "events", typs, env,
             report_events(n, St(n), typs, [env EXCEPT !.now = now]))
    /\ hist' = hist
    /\ encapsulated' = encapsulated

(* the gateway is asked to send a MeshCommand *)
SendMeshCommand(n, pl, env) ==
    /\ Apply(n, "mesh_command", pl, env,
             send_mesh_command(n, St(n), NoIo, pl, [env EXCEPT !.now = now]))
    /\ hist' = hist
    /\ encapsulated' = encapsulated

(* a second passes *)
Tick ==
    /\ now < MaxNow
    /\ now' = now + 1
    /\ UNCHANGED <<PAYLOAD_CACHE, UPLINK_ID, UPLINK_CONTEXT, MESH_CHANNEL,
                   LAST_TIMESTAMP, sock, loops, timers, air, fwd, hist,
                   encapsulated, hopped, flight, out>>
    /\ UNCHANGED cmd_vars

(***************************************************************************)
(* Inputs.  X is a relay out of the model; the frames it and the Border    *)
(* put on the air are built with the codec above.                          *)
(***************************************************************************)
X_RELAY_ID == <<3, 3, 3, 3>>

(* the key the gateways of this mesh sign with, and the key of a stranger *)
MeshKey == get_signing_key(NullKey)

StrangerKey == get_signing_key("stranger")

(* the frame of packet p, encrypted under the mesh root key and signed     *)
(* with key                                                                *)
Frame(p, key) ==
    MeshPacket_to_vec(
        MeshPacket_set_mic(
            MeshPacket_encrypt(p, get_encryption_key(NullKey)).v, key).v).v

(* a LoRaWAN frame of a device: an unconfirmed data up *)
DevicePhy == [mhdr |-> 64, rest |-> <<1, 2, 3>>]

UplinkPacket(relay_id, uplink_id, hop_count) ==
    [mhdr |-> [payload_type |-> "Uplink", hop_count |-> hop_count],
     payload |-> [metadata |-> [uplink_id |-> uplink_id, dr |-> 0, channel |-> 1,
                                rssi |-> -80, snr |-> -5],
                  relay_id |-> relay_id,
                  phy_payload |-> DevicePhy],
     mic |-> None]

DownlinkPacket(relay_id, uplink_id, tx_power, dr, hop_count) ==
    [mhdr |-> [payload_type |-> "Downlink", hop_count |-> hop_count],
     payload |-> [metadata |-> [uplink_id |-> uplink_id, dr |-> dr,
                                frequency |-> kHz(868300), tx_power |-> tx_power,
                                delay |-> 5],
                  relay_id |-> relay_id,
                  phy_payload |-> [mhdr |-> 96, rest |-> <<9, 8>>]],
     mic |-> None]

EventPacket(relay_id, timestamp, events, hop_count) ==
    [mhdr |-> [payload_type |-> "Event", hop_count |-> hop_count],
     payload |-> [timestamp |-> timestamp, relay_id |-> relay_id, events |-> events],
     mic |-> None]

CommandPacket(relay_id, timestamp, commands, hop_count) ==
    [mhdr |-> [payload_type |-> "Command", hop_count |-> hop_count],
     payload |-> [timestamp |-> timestamp, relay_id |-> relay_id,
                  commands |-> commands],
     mic |-> None]

Heartbeat(relay_path) == [kind |-> "Heartbeat", relay_path |-> relay_path]

Proprietary(t, v) == [kind |-> "Proprietary", t |-> t, v |-> v]

(* the rx_info of a reception *)
RxInfo(rssi, snr, context) ==
    [gateway_id |-> <<9, 9, 9, 9, 9, 9, 9, 9>>, crc_status |-> "CrcOk",
     rssi |-> rssi, snr |-> snr, context |-> context, uplink_id |-> 123,
     metadata |-> <<>>]

(* the UplinkFrame event of a concentratord *)
UplinkFrame(phy_payload, frequency, modulation, rx_info) ==
    [kind |-> "UplinkFrame",
     phy_payload |-> phy_payload,
     tx_info |-> [frequency |-> frequency, modulation |-> modulation],
     rx_info |-> rx_info]

(* the mesh radio's event for a frame on the air *)
MeshRx(frame, rx_info) ==
    UplinkFrame(frame, kHz(868100), data_rate_to_gw_modulation(DR_SF7, FALSE), rx_info)

MaxItems == 2

(* the environment of one handler run: the replies of the concentratords,  *)
(* the command types whose process cannot be spawned, getrandom, the       *)
(* verdict of the uplink filters                                           *)
Env(mesh_reply, dev_reply, spawn_fail) ==
    [mesh_reply |-> mesh_reply, dev_reply |-> dev_reply,
     spawn_fail |-> spawn_fail, rnd |-> 42, now |-> 0, filter_matches |-> TRUE]

AllOk == [i \in 1..MaxItems |-> "Ok"]

(***************************************************************************)
(* SpecRelay: the Relay Gateway R alone, receiving device uplinks and the  *)
(* mesh frames of relay X and of the Border                                *)
(***************************************************************************)
PathEntry == [relay_id |-> <<4, 4, 4, 4>>, rssi |-> -70, snr |-> 3]

(* receptions in range, with an rssi above 0, and without rx_info *)
GoodRx == RxInfo(-60, 5, <<>>)

BadRx == RxInfo(5, 5, <<>>)

(* the replies of the mesh concentratord to at most MaxItems commands *)
MeshReplies == [1..MaxItems -> RadioReply]

(* frames R re-relays, or drops for their hop count or their MIC *)
RelayedFrames ==
    {Frame(UplinkPacket(X_RELAY_ID, 5, h), MeshKey) : h \in {1, 2, 3, 8}}
    \cup {Frame(DownlinkPacket(X_RELAY_ID, 1, 1, 0, 1), MeshKey),
          Frame(CommandPacket(X_RELAY_ID, 1, <<Proprietary(130, <<1>>)>>, 1), MeshKey),
          Frame(UplinkPacket(X_RELAY_ID, 5, 1), StrangerKey),
          [mhdr |-> 224]}

EventFrames ==
    {Frame(EventPacket(X_RELAY_ID, 1, <<Heartbeat(<<>>)>>, 1), MeshKey),
     Frame(EventPacket(X_RELAY_ID, 1,
                       <<Heartbeat(<<PathEntry>>), Proprietary(128, <<1>>)>>, 2),
           MeshKey),
     Frame(EventPacket(RELAY_ID["R"], 1, <<Heartbeat(<<>>)>>, 1), MeshKey)}

(* Downlinks addressed to R: uplink ids 1 and 2, a tx power index and a    *)
(* data rate without a mapping                                             *)
OwnDownlinkFrames ==
    {Frame(DownlinkPacket(RELAY_ID["R"], u, 1, 0, 1), MeshKey) : u \in {1, 2}}
    \cup {Frame(DownlinkPacket(RELAY_ID["R"], 1, 2, 0, 1), MeshKey),
          Frame(DownlinkPacket(RELAY_ID["R"], 1, 1, 1, 1), MeshKey)}

OwnCommandFrames ==
    {Frame(CommandPacket(RELAY_ID["R"], 1, <<Proprietary(130, <<1>>)>>, 1), MeshKey)}

(* the receptions of R: a frame, its rx_info and the environment *)
RelayReceptions ==
    {<<f, GoodRx, Env(m, "Ok", {})>> :
        f \in RelayedFrames, m \in {AllOk, [AllOk EXCEPT ![1] = "Nack"]}}
    \cup {<<f, rx, Env(AllOk, "Ok", {})>> : f \in EventFrames, rx \in {GoodRx, BadRx}}
    \cup {<<f, GoodRx, Env(AllOk, d, {})>> : f \in OwnDownlinkFrames, d \in RadioReply}
    \cup {<<f, GoodRx, Env(m, "Ok", sf)>> :
            f \in OwnCommandFrames, m \in {AllOk, [AllOk EXCEPT ![1] = "Timeout"]},
            sf \in {{}, {130}}}
    \cup {<<f, None, Env(AllOk, "Ok", {})>> : f \in OwnDownlinkFrames}

DeviceContexts == {<<7>>, <<8>>}

DeviceUplinks ==
    {UplinkFrame(DevicePhy, kHz(868100), data_rate_to_gw_modulation(DR_SF12, FALSE),
                 RxInfo(-90, 7, c)) : c \in DeviceContexts}
    \cup {UplinkFrame(DevicePhy, kHz(867100), data_rate_to_gw_modulation(DR_SF12, FALSE),
                      RxInfo(-90, 7, <<7>>)),
          UplinkFrame(DevicePhy, kHz(868100), data_rate_to_gw_modulation(DR_SF7, FALSE),
                      RxInfo(-90, 7, <<7>>))}

MaxRecv == 1

MaxUplinks == 1

RelayNext ==
    \/ \E r \in RelayReceptions :
            /\ Len(hist["R"]) < MaxRecv
            /\ MeshEvent("R", MeshRx(r[1], r[2]), r[3])
    \/ \E pl \in DeviceUplinks, m \in {AllOk, [AllOk EXCEPT ![1] = "Nack"]} :
            /\ UPLINK_ID["R"] < MaxUplinks
            /\ DeviceEvent("R", pl, Env(m, "Ok", {}))

SpecRelay == Init /\ [][RelayNext]_vars

(***************************************************************************)
(* SpecWindow: one gateway receives two tracked packets and, between them, *)
(* a run of distinct filler Uplinks of relay X that is long enough to      *)
(* push an entry out of the dedup cache                                    *)
(***************************************************************************)
TrackedUplink == Frame(UplinkPacket(X_RELAY_ID, 5, 1), MeshKey)

TrackedCommand(timestamp) ==
    Frame(CommandPacket(RELAY_ID["R"], timestamp, <<Proprietary(130, <<1>>)>>, 1),
          MeshKey)

TrackedFrames == {TrackedUplink, TrackedCommand(1), TrackedCommand(2)}

(* the k-th filler: an Uplink of relay X with an uplink id of its own *)
FillerFrame(k) == Frame(UplinkPacket(X_RELAY_ID, 100 + k, 1), MeshKey)

IsFiller(key) == key.p_type = "Uplink" /\ key.uplink_id >= 100

(* the number of fillers and of tracked packets node n has received *)
NumFill(n) == Cardinality({i \in 1..Len(hist[n]) : IsFiller(hist[n][i].key)})

NumTracked(n) == Len(hist[n]) - NumFill(n)

MaxFill == 64

MaxTracked == 2

(* the numbers of fillers after which a tracked packet may arrive: none,   *)
(* one less than the cache holds, as many as the cache holds               *)
WindowPoints == {0, CacheSize - 1, CacheSize}

(* only node n has received anything *)
Alone(n) == \A m \in TestMesh \ {n} : hist[m] = <<>>

WindowNext ==
    \/ \E n \in TestMesh :
            /\ Alone(n)
            /\ NumFill(n) < MaxFill
            /\ MeshEvent(n, MeshRx(FillerFrame(NumFill(n)), GoodRx),
                         Env(AllOk, "Ok", {}))
    \/ \E n \in TestMesh, f \in TrackedFrames :
            /\ Alone(n)
            /\ NumFill(n) \in WindowPoints
            /\ NumTracked(n) < MaxTracked
            /\ MeshEvent(n, MeshRx(f, GoodRx), Env(AllOk, "Ok", {}))

SpecWindow == Init /\ [][WindowNext]_vars

(* C1: when a gateway receives a mesh Uplink packet (payload type,         *)
(* relay_id, uplink_id) again, and fewer than 64 other distinct MIC-valid  *)
(* mesh packets were received since its first reception, the later         *)
(* reception produces no outbound action: no command to a radio and no     *)
(* event to the forwarder.                                                 *)
C1_DuplicateSuppressed ==
    \A n \in Node :
        LET h == hist[n]
            j == Len(h)
        IN \A i \in 1..(j - 1) :
              (/\ h[j].key.p_type = "Uplink"
               /\ h[i].key = h[j].key
               /\ \A k \in 1..(i - 1) : h[k].key # h[j].key
               /\ Cardinality({h[k].key : k \in (i + 1)..(j - 1)} \ {h[j].key}) < 64)
              => ~h[j].acted

(* the first reception acted, 63 other packets followed, and the second    *)
(* reception was suppressed                                                *)
C1_Witness ==
    \E n \in Node :
        LET h == hist[n]
        IN /\ Len(h) = 65
           /\ h[1].key.p_type = "Uplink"
           /\ h[1].acted
           /\ h[65].key = h[1].key
           /\ ~h[65].acted
           /\ Cardinality({h[k].key : k \in 2..64}) = 63
           /\ out.node = n /\ out.op = "mesh" /\ ~acted(out.io)

(***************************************************************************)
(* What the last handler run received and sent, decoded                    *)
(***************************************************************************)
(* the mesh packet of the frame the last run received *)
ReceivedPacket == MeshPacket_from_slice(out.input.phy_payload).v

(* the mesh packet of the k-th command the last run gave the mesh radio *)
SentPacket(k) == MeshPacket_from_slice(out.io.mesh[k].items[1].phy_payload).v

(* the last run was a mesh reception at node n that passed the MIC and the *)
(* dedup cache of handle_mesh                                              *)
FreshReception(n) ==
    /\ out.op = "mesh"
    /\ out.node = n
    /\ received_key(n, out.input) # None
    /\ \A i \in 1..Len(out.pre.cache) : out.pre.cache[i] # received_key(n, out.input)

(* C2: a mesh packet the Relay Gateway re-relays is transmitted with the   *)
(* received hop_count plus one; no command given to the mesh radio carries *)
(* a hop_count above mesh.max_hop_count; and when the incremented          *)
(* hop_count of a packet to re-relay exceeds max_hop_count the handler     *)
(* fails and gives the mesh radio no command.                              *)
C2_HopLimit ==
    (out.op = "mesh" /\ out.node = "R") =>
        /\ \A k \in 1..Len(out.io.mesh) :
              /\ SentPacket(k).mhdr.hop_count <= conf["R"].mesh.max_hop_count
              /\ SentPacket(k).mhdr.payload_type = ReceivedPacket.mhdr.payload_type
                    => SentPacket(k).mhdr.hop_count = ReceivedPacket.mhdr.hop_count + 1
        /\ (/\ FreshReception("R")
            /\ out.input.rx_info # None
            /\ ReceivedPacket.payload.relay_id # RELAY_ID["R"]
            /\ ReceivedPacket.mhdr.hop_count + 1 > conf["R"].mesh.max_hop_count)
              => ~out.res.ok /\ out.io.mesh = <<>>

(* R re-relayed a packet received with hop_count max_hop_count - 1 *)
C2_Witness ==
    /\ FreshReception("R")
    /\ Len(out.io.mesh) = 1
    /\ ReceivedPacket.mhdr.hop_count = conf["R"].mesh.max_hop_count - 1
    /\ SentPacket(1).mhdr.hop_count = conf["R"].mesh.max_hop_count
    /\ SentPacket(1).payload = ReceivedPacket.payload
    /\ out.res.ok

(* the last run was the reception by R of a MIC-valid Command addressed to *)
(* R                                                                       *)
OwnCommandReceived ==
    /\ out.op = "mesh"
    /\ out.node = "R"
    /\ received_key("R", out.input) # None
    /\ received_key("R", out.input).p_type = "Command"
    /\ received_key("R", out.input).relay_id = RELAY_ID["R"]

(* C3: on the Relay Gateway a Command payload is executed only when its    *)
(* timestamp is greater than the last accepted one, which it then becomes; *)
(* the last accepted timestamp never decreases; a Command addressed to the *)
(* relay whose timestamp is less than or equal to the last accepted one    *)
(* executes nothing, sends no reply and leaves the last accepted timestamp *)
(* as it is, and fails if it is not dropped as a duplicate first.          *)
C3_CommandReplay ==
    /\ out.node = "R" /\ out.io.exec # <<>> => OwnCommandReceived
    /\ out.node = "R" /\ LAST_TIMESTAMP["R"] # out.pre.last_timestamp =>
          /\ OwnCommandReceived
          /\ LAST_TIMESTAMP["R"] = Some(received_key("R", out.input).timestamp)
    /\ OwnCommandReceived =>
          LET timestamp == received_key("R", out.input).timestamp
              last == out.pre.last_timestamp
          IN /\ out.io.exec # <<>> =>
                    /\ last = None \/ last.v < timestamp
                    /\ LAST_TIMESTAMP["R"] = Some(timestamp)
             /\ (last # None /\ timestamp <= last.v) =>
                    /\ out.io.exec = <<>>
                    /\ out.io.mesh = <<>>
                    /\ LAST_TIMESTAMP["R"] = last
                    /\ FreshReception("R") => ~out.res.ok

(* a Command that R executed is received again after its dedup entry was   *)
(* evicted, and is rejected                                                *)
C3_Witness ==
    /\ OwnCommandReceived
    /\ FreshReception("R")
    /\ out.pre.last_timestamp = Some(received_key("R", out.input).timestamp)
    /\ \E i \in 1..(Len(hist["R"]) - 1) :
          hist["R"][i].key = received_key("R", out.input) /\ hist["R"][i].acted
    /\ ~out.res.ok
    /\ out.io.exec = <<>>
    /\ out.io.mesh = <<>>

(***************************************************************************)
(* SpecTrip: R and the Border B with a device and the forwarder.  R        *)
(* relays device uplinks, every gateway receives the frames the other put  *)
(* on the air, the forwarder answers the uplinks B published with a        *)
(* downlink that carries the uplink's context.                             *)
(***************************************************************************)
(* the downlink of the forwarder for an uplink context: one Class-A item *)
TripDownlink(context) ==
    [downlink_id |-> 77,
     gateway_id |-> GATEWAY_ID["B"],
     items |-> <<[phy_payload |-> [mhdr |-> 96, rest |-> <<9, 8>>],
                  tx_info |-> [frequency |-> kHz(868500),
                               power |-> 16,
                               modulation |-> data_rate_to_gw_modulation(DR_SF12, TRUE),
                               timing |-> [kind |-> "Delay", delay |-> Some(1)],
                               context |-> context]]>>]

TripUplinks ==
    {UplinkFrame(DevicePhy, kHz(868100), data_rate_to_gw_modulation(DR_SF12, FALSE),
                 RxInfo(-90, 7, c)) : c \in DeviceContexts}

MaxTripUplinks == 2

MaxTripRecv == 2

TripNext ==
    \/ \E pl \in TripUplinks :
            /\ UPLINK_ID["R"] < MaxTripUplinks
            /\ DeviceEvent("R", pl, Env(AllOk, "Ok", {}))
    \/ \E n \in TestMesh, f \in air :
            /\ Len(hist[n]) < MaxTripRecv
            /\ MeshEvent(n, MeshRx(f, GoodRx), Env(AllOk, "Ok", {}))
    \/ \E c \in fwd : ForwarderDownlink("B", TripDownlink(c), Env(AllOk, "Ok", {}))

SpecTrip == Init /\ [][TripNext]_vars

(* the device downlink the last run scheduled *)
DeviceDownlink == out.io.dev[1]

(* C4: [B] the UplinkFrame the Border publishes for a relayed uplink of    *)
(* relay r with uplink id u has the context [1,2,3] ++ r ++ u (big         *)
(* endian); [F] for a forwarder downlink whose item carries that context   *)
(* the Border gives the mesh radio a Downlink packet with relay_id r and   *)
(* uplink_id u; [R] when relay R unwraps a Downlink with uplink_id u, the  *)
(* context of the device downlink is the context C of every device uplink  *)
(* that R encapsulated under uplink id u with fewer than 4096 further      *)
(* uplinks encapsulated since.                                             *)
C4_ContextRoundTrip ==
    /\ (FreshReception("B") /\ out.io.fwd # <<>>
        /\ ReceivedPacket.mhdr.payload_type = "Uplink") =>
            out.io.fwd[1].rx_info.context =
                <<1, 2, 3>> \o ReceivedPacket.payload.relay_id
                \o <<ReceivedPacket.payload.metadata.uplink_id \div 256,
                     ReceivedPacket.payload.metadata.uplink_id % 256>>
    /\ (out.op = "downlink" /\ out.node = "B") =>
            \A k \in 1..Len(out.io.mesh) :
                LET context == out.input.items[k].tx_info.context
                IN /\ SentPacket(k).mhdr.payload_type = "Downlink"
                   /\ SentPacket(k).payload.relay_id = SubSeq(context, 4, 7)
                   /\ SentPacket(k).payload.metadata.uplink_id =
                          context[8] * 256 + context[9]
    /\ (FreshReception("R") /\ out.io.dev # <<>>) =>
            \A i \in 1..Len(encapsulated["R"]) :
                (/\ encapsulated["R"][i].uplink_id =
                        ReceivedPacket.payload.metadata.uplink_id
                 /\ Len(encapsulated["R"]) - i < 4096)
                => DeviceDownlink.items[1].tx_info.context =
                        encapsulated["R"][i].context

(* the whole trip: R encapsulated two uplinks, the Border published the    *)
(* first, the forwarder answered it, and R, receiving the Border's frame,  *)
(* scheduled the device downlink with the first uplink's context           *)
C4_Witness ==
    /\ FreshReception("R")
    /\ out.input.phy_payload \in air
    /\ Len(encapsulated["R"]) = 2
    /\ encapsulated["R"][1].context # encapsulated["R"][2].context
    /\ ReceivedPacket.mhdr.payload_type = "Downlink"
    /\ ReceivedPacket.payload.metadata.uplink_id = encapsulated["R"][1].uplink_id
    /\ <<1, 2, 3>> \o RELAY_ID["R"]
          \o to_be_bytes(ReceivedPacket.payload.metadata.uplink_id) \in fwd
    /\ Len(out.io.dev) = 1
    /\ DeviceDownlink.items[1].tx_info.context = encapsulated["R"][1].context

(***************************************************************************)
(* SpecWrap: R after its uplink-id counter has gone once around.  The      *)
(* initial state is the one R reaches from Init by encapsulating one       *)
(* device uplink with context <<7>> and then receiving 4094 device uplinks *)
(* on a frequency that maps to no channel; it is computed here by running  *)
(* the handler that many times.                                            *)
(***************************************************************************)
WrapEnv == Env(AllOk, "Ok", {})

MappedUplink(context) ==
    UplinkFrame(DevicePhy, kHz(868100), data_rate_to_gw_modulation(DR_SF12, FALSE),
                RxInfo(-90, 7, context))

UnmappedUplink(context) ==
    UplinkFrame(DevicePhy, kHz(867100), data_rate_to_gw_modulation(DR_SF12, FALSE),
                RxInfo(-90, 7, context))

RECURSIVE AfterUplinks(_, _, _)
(* the statics of R after k runs of handle_event_msg on pl: the first half *)
(* of the runs, then the rest                                              *)
AfterUplinks(s, pl, k) ==
    IF k = 0 THEN s
    ELSE IF k = 1 THEN handle_event_msg("R", s, pl, WrapEnv).s
    ELSE Let(AfterUplinks(s, pl, k \div 2), LAMBDA half :
         IF half.uplink_id >= 0 THEN AfterUplinks(half, pl, k - (k \div 2))
         ELSE half)

WrapFirst == handle_event_msg("R", InitSt, MappedUplink(<<7>>), WrapEnv)

WrapAged == AfterUplinks(WrapFirst.s, UnmappedUplink(<<9>>), MaxUplinkId - 1)

WrapInit ==
    /\ PAYLOAD_CACHE = [n \in Node |-> InitSt.cache]
    /\ UPLINK_ID = [n \in Node |-> IF n = "R" THEN WrapAged.uplink_id
                                   ELSE InitSt.uplink_id]
    /\ UPLINK_CONTEXT = [n \in Node |-> IF n = "R" THEN WrapAged.uplink_context
                                        ELSE InitSt.uplink_context]
    /\ MESH_CHANNEL = [n \in Node |-> IF n = "R" THEN WrapAged.mesh_channel
                                      ELSE InitSt.mesh_channel]
    /\ LAST_TIMESTAMP = [n \in Node |-> InitSt.last_timestamp]
    /\ sock = [n \in Node |-> IF n = "R" THEN WrapAged.sock ELSE InitSt.sock]
    /\ loops = [n \in Node |-> InitLoops]
    /\ timers = [n \in Node |-> setup(n)]
    /\ now = 1
    /\ air = Range(WrapFirst.io.aired)
    /\ fwd = {}
    /\ hist = [n \in Node |-> <<>>]
    /\ hopped = [n \in Node |-> <<>>]
    /\ flight = [n \in Flooders |-> {}]
    /\ CommandInit
    /\ encapsulated =
          [n \in Node |-> IF n = "R"
                          THEN <<[uplink_id |-> WrapFirst.s.uplink_id,
                                  context |-> <<7>>]>>
                          ELSE <<>>]
    /\ out = [node |-> "R", op |-> "init", input |-> None, env |-> None,
              pre |-> InitSt, after_error |-> FALSE, io |-> NoIo, res |-> Ok("unit")]

MaxWrapUplinks == 3

(* the number of uplink ids R has allocated since WrapInit *)
WrapAllocated == (UPLINK_ID["R"] - WrapAged.uplink_id) % (MaxUplinkId + 1)

WrapNext ==
    \/ \E pl \in {MappedUplink(<<8>>), UnmappedUplink(<<9>>)} :
            /\ WrapAllocated < MaxWrapUplinks
            /\ DeviceEvent("R", pl, WrapEnv)
    \/ \E u \in {0, 1, 2} :
            /\ Len(hist["R"]) < MaxRecv
            /\ MeshEvent("R",
                         MeshRx(Frame(DownlinkPacket(RELAY_ID["R"], u, 1, 0, 1), MeshKey),
                                GoodRx),
                         WrapEnv)

SpecWrap == WrapInit /\ [][WrapNext]_vars

(***************************************************************************)
(* SpecForward: the downlink commands of the forwarder                     *)
(***************************************************************************)
(* the context the Border gave uplink 1 of relay R *)
RelayedCtx == <<1, 2, 3>> \o RELAY_ID["R"] \o <<0, 1>>

Delay(seconds) == [kind |-> "Delay", delay |-> Some(seconds)]

TxInfo(frequency, power, modulation, timing, context) ==
    [frequency |-> frequency, power |-> power, modulation |-> modulation,
     timing |-> timing, context |-> context]

Item(b, tx_info) == [phy_payload |-> [mhdr |-> 96, rest |-> <<b>>], tx_info |-> tx_info]

LoraIpol == data_rate_to_gw_modulation(DR_SF12, TRUE)

(* an item that can be relayed *)
GoodItem(b) == Item(b, TxInfo(kHz(868500), 16, LoraIpol, Delay(1), RelayedCtx))

(* items that cannot be relayed: a data rate and a tx power without a      *)
(* mapping, a timing that is not Delay, a delay and a frequency the mesh   *)
(* header cannot hold, a context that is too short, no tx_info, no         *)
(* modulation, no timing                                                   *)
BadItems ==
    {Item(3, TxInfo(kHz(868500), 16, data_rate_to_gw_modulation(DR_SF7, TRUE),
                    Delay(1), RelayedCtx)),
     Item(3, TxInfo(kHz(868500), 10, LoraIpol, Delay(1), RelayedCtx)),
     Item(3, TxInfo(kHz(868500), 16, LoraIpol, Immediately, RelayedCtx)),
     Item(3, TxInfo(kHz(868500), 16, LoraIpol, Delay(17), RelayedCtx)),
     Item(3, TxInfo(kHz(868500) + 1, 16, LoraIpol, Delay(1), RelayedCtx)),
     Item(3, TxInfo(kHz(868500), 16, LoraIpol, Delay(1), <<1, 2, 3>>)),
     Item(3, None),
     Item(3, TxInfo(kHz(868500), 16, None, Delay(1), RelayedCtx)),
     Item(3, TxInfo(kHz(868500), 16, LoraIpol, None, RelayedCtx))}

(* items of a direct downlink: no context, nine bytes with another prefix, *)
(* the prefix and ten bytes                                                *)
DirectItems ==
    {Item(4, TxInfo(kHz(868500), 16, LoraIpol, Delay(1), c)) :
        c \in {<<>>, <<9, 9, 9>> \o RELAY_ID["R"] \o <<0, 1>>, RelayedCtx \o <<0>>}}
    \cup {Item(4, TxInfo(kHz(868500), 16, LoraIpol, None, <<>>))}

(* the items that fail in the middle of a downlink of several items *)
CoreBadItems ==
    {Item(3, TxInfo(kHz(868500), 16, data_rate_to_gw_modulation(DR_SF7, TRUE),
                    Delay(1), RelayedCtx)),
     Item(3, TxInfo(kHz(868500), 16, LoraIpol, Delay(1), <<1, 2, 3>>)),
     Item(3, None)}

DownlinkFrame(items) ==
    [downlink_id |-> 77, gateway_id |-> GATEWAY_ID["B"], items |-> items]

(* downlinks of MaxItems items: all good, or one bad item among good ones *)
LongDownlinks ==
    {DownlinkFrame([i \in 1..MaxItems |-> GoodItem(1 + (i % 2))])}
    \cup {DownlinkFrame([i \in 1..MaxItems |-> IF i = p THEN bad ELSE GoodItem(1 + (i % 2))]) :
            p \in 1..MaxItems, bad \in CoreBadItems}

ShortDownlinks ==
    {DownlinkFrame(<<>>)}
    \cup {DownlinkFrame(<<i>>) : i \in {GoodItem(1)} \cup BadItems}

DirectDownlinks == {DownlinkFrame(<<i>>) : i \in DirectItems}

(* the reply to the first mesh command alone varies *)
FirstReplies == {[i \in 1..MaxItems |-> IF i = 1 THEN r ELSE "Ok"] : r \in RadioReply}

(* the downlink commands of the forwarder with the replies of the radios *)
ForwarderCommands ==
    {<<pl, Env(m, "Ok", {})>> : pl \in LongDownlinks, m \in MeshReplies}
    \cup {<<pl, Env(m, "Ok", {})>> : pl \in ShortDownlinks, m \in FirstReplies}
    \cup {<<pl, Env(AllOk, d, {})>> : pl \in DirectDownlinks, d \in RadioReply}

ForwardNext ==
    \E c \in ForwarderCommands : ForwarderDownlink("B", c[1], c[2])

SpecForward == Init /\ [][ForwardNext]_vars

(* the last run was a downlink command of at least one item whose first    *)
(* item's context is nine bytes long and starts with 1, 2, 3               *)
RelayedFirstContext ==
    /\ out.op = "downlink"
    /\ out.input.items # <<>>
    /\ out.input.items[1].tx_info # None
    /\ Len(out.input.items[1].tx_info.context) = 9
    /\ SubSeq(out.input.items[1].tx_info.context, 1, 3) = <<1, 2, 3>>

(* every command the last run gave the mesh radio carries a Downlink *)
MeshSentAreDownlinks ==
    \A k \in 1..Len(out.io.mesh) : SentPacket(k).mhdr.payload_type = "Downlink"

(* every item of the last downlink command has tx_info, modulation, timing *)
AllItemsComplete ==
    \A i \in 1..Len(out.input.items) :
        /\ out.input.items[i].tx_info # None
        /\ out.input.items[i].tx_info.modulation # None
        /\ out.input.items[i].tx_info.timing # None

(* item i of the last downlink command can be put in a mesh Downlink *)
Relayable(i) ==
    /\ downlink_mesh_packet(out.node, out.input.items[i]).ok
    /\ MeshPacket_to_vec(downlink_mesh_packet(out.node, out.input.items[i]).v).ok

(* C5 as stated: a downlink whose first context is nine bytes starting     *)
(* with 1, 2, 3 gives the mesh radio Downlink packets and the device radio *)
(* nothing; every other downlink with at least one item is given unchanged *)
(* to the device radio and the mesh radio gets nothing.                    *)
C5_Classification ==
    (out.op = "downlink" /\ out.input.items # <<>>) =>
        IF RelayedFirstContext
        THEN out.io.dev = <<>> /\ MeshSentAreDownlinks
        ELSE out.io.dev = <<out.input>> /\ out.io.mesh = <<>>

(* C5 amended: a downlink whose first context is nine bytes starting with  *)
(* 1, 2, 3 gives the device radio nothing, what it gives the mesh radio    *)
(* are Downlink packets, and a first item that can be relayed is given to  *)
(* the mesh radio; every other downlink with at least one item gives the   *)
(* mesh radio nothing and is given unchanged to the device radio when      *)
(* every item has tx_info, modulation and timing, else the request fails   *)
(* and the device radio gets nothing.                                      *)
C5_ClassificationComplete ==
    (out.op = "downlink" /\ out.input.items # <<>>) =>
        IF RelayedFirstContext
        THEN /\ out.io.dev = <<>>
             /\ MeshSentAreDownlinks
             /\ Relayable(1) =>
                    /\ out.io.mesh # <<>>
                    /\ SentPacket(1).payload.phy_payload =
                           out.input.items[1].phy_payload
        ELSE /\ out.io.mesh = <<>>
             /\ IF AllItemsComplete THEN out.io.dev = <<out.input>>
                ELSE out.io.dev = <<>> /\ ~out.res.ok

(* a downlink whose first context has the prefix and ten bytes went to the *)
(* device radio                                                            *)
C5_Witness ==
    /\ out.op = "downlink"
    /\ out.input.items # <<>>
    /\ out.input.items[1].tx_info # None
    /\ Len(out.input.items[1].tx_info.context) = 10
    /\ SubSeq(out.input.items[1].tx_info.context, 1, 3) = <<1, 2, 3>>
    /\ out.io.dev = <<out.input>>

(* C6: the DownlinkTxAck returned for a relayed downlink has one status    *)
(* per item; at most one is Ok; the items before the Ok one are            *)
(* InternalError and those after it Ignored; without an Ok all are         *)
(* InternalError; the mesh radio got the items up to the Ok one, in order, *)
(* and none after it.                                                      *)
C6_AckShape ==
    (RelayedFirstContext /\ out.res.ok) =>
        LET ack == out.res.v.items
            oks == {i \in 1..Len(ack) : ack[i] = "Ok"}
        IN /\ Len(ack) = Len(out.input.items)
           /\ Cardinality(oks) <= 1
           /\ \A i \in oks :
                /\ \A j \in 1..(i - 1) : ack[j] = "InternalError"
                /\ \A j \in (i + 1)..Len(ack) : ack[j] = "Ignored"
                /\ Len(out.io.mesh) = i
           /\ oks = {} =>
                /\ \A j \in 1..Len(ack) : ack[j] = "InternalError"
                /\ Len(out.io.mesh) = Len(ack)
           /\ \A k \in 1..Len(out.io.mesh) :
                SentPacket(k).payload.phy_payload = out.input.items[k].phy_payload
           /\ Len(out.io.aired) = Cardinality(oks)

(* the first item failed on the mesh radio and a later one went out *)
C6_Witness ==
    /\ RelayedFirstContext
    /\ out.res.ok
    /\ out.res.v.items[1] = "InternalError"
    /\ \E i \in 2..Len(out.res.v.items) : out.res.v.items[i] = "Ok"

(* C7: a relayed downlink always returns a DownlinkTxAck; an item that     *)
(* cannot be relayed and is reached (no item before it is Ok) is           *)
(* InternalError in it.                                                    *)
C7_PerItemFailure ==
    RelayedFirstContext =>
        /\ out.res.ok
        /\ \A i \in 1..Len(out.input.items) :
              (/\ ~Relayable(i)
               /\ \A j \in 1..(i - 1) : out.res.v.items[j] # "Ok")
              => out.res.v.items[i] = "InternalError"

(* the last run was a fresh reception at R of a Downlink addressed to R *)
OwnDownlinkReceived ==
    /\ FreshReception("R")
    /\ ReceivedPacket.mhdr.payload_type = "Downlink"
    /\ ReceivedPacket.payload.relay_id = RELAY_ID["R"]

(* the device radio got exactly the downlink the received Downlink packet  *)
(* describes, with the context R stored for its uplink id                  *)
UnwrappedToDevice ==
    /\ Len(out.io.dev) = 1
    /\ Len(DeviceDownlink.items) = 1
    /\ Let(ReceivedPacket.payload.metadata, LAMBDA md :
       Let(DeviceDownlink.items[1], LAMBDA item :
       /\ item.phy_payload = ReceivedPacket.payload.phy_payload
       /\ item.tx_info.frequency = md.frequency
       /\ item.tx_info.timing = [kind |-> "Delay", delay |-> Some(md.delay)]
       /\ item.tx_info.power = mappings_tx_power[md.tx_power + 1]
       /\ item.tx_info.modulation =
             data_rate_to_gw_modulation(mappings_data_rates[md.dr + 1], TRUE)
       /\ item.tx_info.context = out.pre.uplink_context[md.uplink_id]))

(* C8 as stated: on a fresh Downlink addressed to it the Relay Gateway     *)
(* gives the mesh radio nothing; with a context stored for the uplink_id   *)
(* it gives the device radio exactly one downlink built from the packet    *)
(* and that context, and without one it gives the device radio nothing.    *)
C8_RelayUnwrap ==
    OwnDownlinkReceived =>
        /\ out.io.mesh = <<>>
        /\ IF ReceivedPacket.payload.metadata.uplink_id \in DOMAIN out.pre.uplink_context
           THEN UnwrappedToDevice
           ELSE out.io.dev = <<>>

(* C8 amended: on a fresh Downlink addressed to it the Relay Gateway gives *)
(* the mesh radio nothing; when the reception has rx_info, the tx power    *)
(* index and the dr are in the mapping tables and a context is stored for  *)
(* the uplink_id it gives the device radio exactly one downlink built from *)
(* the packet and that context; in every other case it gives the device    *)
(* radio nothing.                                                          *)
C8_RelayUnwrapMapped ==
    OwnDownlinkReceived =>
        /\ out.io.mesh = <<>>
        /\ IF /\ out.input.rx_info # None
              /\ ReceivedPacket.payload.metadata.tx_power < Len(mappings_tx_power)
              /\ ReceivedPacket.payload.metadata.dr < Len(mappings_data_rates)
              /\ ReceivedPacket.payload.metadata.uplink_id \in DOMAIN out.pre.uplink_context
           THEN UnwrappedToDevice
           ELSE out.io.dev = <<>>

(* R unwrapped a Downlink for an uplink whose context it had stored *)
C8_Witness ==
    /\ OwnDownlinkReceived
    /\ out.pre.uplink_context # <<>>
    /\ UnwrappedToDevice

(* the last run was a fresh reception at R of an Event packet *)
EventReceived ==
    /\ FreshReception("R")
    /\ ReceivedPacket.mhdr.payload_type = "Event"

(* the events of a packet as they are under the encryption *)
EventsOf(packet) ==
    MeshPacket_decrypt(packet, get_encryption_key(NullKey)).v.payload.events

(* C9: the Event packet a Relay Gateway re-relays for another relay holds  *)
(* the received events in order, each Heartbeat with one entry of the own  *)
(* relay_id and the rssi and snr of the reception after the entries it     *)
(* had, each Proprietary event as received; its events are encrypted and   *)
(* its MIC is valid for the packet as sent; an Event packet of the relay's *)
(* own relay_id leads to no command and no forwarder event.                *)
C9_HeartbeatPath ==
    EventReceived =>
        IF ReceivedPacket.payload.relay_id = RELAY_ID["R"]
        THEN ~acted(out.io)
        ELSE \A k \in 1..Len(out.io.mesh) :
                LET before == EventsOf(ReceivedPacket)
                    after == EventsOf(SentPacket(k))
                    entry == [relay_id |-> RELAY_ID["R"],
                              rssi |-> out.input.rx_info.rssi,
                              snr |-> out.input.rx_info.snr]
                IN /\ SentPacket(k).mhdr.payload_type = "Event"
                   /\ Len(after) = Len(before)
                   /\ \A i \in 1..Len(before) :
                        IF before[i].kind = "Heartbeat"
                        THEN /\ after[i].kind = "Heartbeat"
                             /\ after[i].relay_path =
                                    before[i].relay_path \o <<entry>>
                        ELSE after[i] = before[i]
                   /\ Len(SentPacket(k).payload.events) = 1
                   /\ SentPacket(k).payload.events[1].kind = "Encrypted"
                   /\ ~IsPlain(SentPacket(k).payload.events[1].b)
                   /\ MeshPacket_validate_mic(SentPacket(k), MeshKey) = Ok(TRUE)

(* R re-relayed a Heartbeat that had a path entry already, with a          *)
(* Proprietary event                                                       *)
C9_Witness ==
    /\ EventReceived
    /\ ReceivedPacket.payload.relay_id # RELAY_ID["R"]
    /\ Len(out.io.mesh) = 1
    /\ \E i \in 1..Len(EventsOf(ReceivedPacket)) :
            /\ EventsOf(ReceivedPacket)[i].kind = "Heartbeat"
            /\ EventsOf(ReceivedPacket)[i].relay_path # <<>>
    /\ \E i \in 1..Len(EventsOf(ReceivedPacket)) :
            EventsOf(ReceivedPacket)[i].kind = "Proprietary"

(***************************************************************************)
(* SpecBorder: the Border Gateway B receiving the mesh frames of relay R   *)
(***************************************************************************)
(* an Uplink packet of R with a channel and a dr of choice *)
BorderUplink(uplink_id, channel, dr) ==
    [UplinkPacket(RELAY_ID["R"], uplink_id, 1) EXCEPT
        !.payload.metadata.channel = channel, !.payload.metadata.dr = dr]

(* Uplinks (the last two with a channel and a dr without a mapping),       *)
(* Events, Downlinks and Commands under the mesh key, an Uplink under      *)
(* another key                                                             *)
BorderFrames ==
    {Frame(BorderUplink(1, 1, 0), MeshKey),
     Frame(BorderUplink(2, 0, 0), MeshKey),
     Frame(BorderUplink(3, Len(mappings_channels), 0), MeshKey),
     Frame(BorderUplink(4, 1, Len(mappings_data_rates)), MeshKey),
     Frame(EventPacket(RELAY_ID["R"], 1, <<Heartbeat(<<>>)>>, 1), MeshKey),
     Frame(EventPacket(RELAY_ID["R"], 2,
                       <<Heartbeat(<<PathEntry>>), Proprietary(128, <<1>>)>>, 2),
           MeshKey),
     Frame(DownlinkPacket(RELAY_ID["R"], 1, 1, 0, 1), MeshKey),
     Frame(DownlinkPacket(RELAY_ID["B"], 1, 1, 0, 1), MeshKey),
     Frame(CommandPacket(RELAY_ID["R"], 1, <<Proprietary(130, <<1>>)>>, 1), MeshKey),
     Frame(CommandPacket(RELAY_ID["B"], 1, <<Proprietary(130, <<1>>)>>, 1), MeshKey),
     Frame(BorderUplink(1, 1, 0), StrangerKey)}

MaxBorderRecv == 2

BorderNext ==
    \E f \in BorderFrames, rx \in {GoodRx, None} :
        /\ Len(hist["B"]) < MaxBorderRecv
        /\ MeshEvent("B", MeshRx(f, rx), Env(AllOk, "Ok", {}))

SpecBorder == Init /\ [][BorderNext]_vars

(* the last run was a fresh reception at B of a packet of one of the types *)
BorderReceived(types) ==
    /\ FreshReception("B")
    /\ ReceivedPacket.mhdr.payload_type \in types

C14_RecoveryAfterTimeout ==
    /\ (out.op = "uplink" /\ Len(out.io.mesh) = 1 /\ out.env.mesh_reply[1] = "Ok")
          => out.res.ok /\ Len(out.io.aired) = 1
    /\ (out.op = "mesh" /\ Len(out.io.dev) = 1 /\ out.env.dev_reply = "Ok")
          => out.res.ok

(***************************************************************************)
(* SpecDirect: one gateway, with the test configuration or with one        *)
(* setting changed, receives frames on its device radio                    *)
(***************************************************************************)
DirectNodes == {"R", "Ri", "R2", "R3", "B"}

(* frames the pre-filter of handle_event_msg drops: CRC not OK, no rx_info *)
(* at all, a proprietary first byte                                        *)
DroppedUplinks ==
    {UplinkFrame(DevicePhy, kHz(868100), data_rate_to_gw_modulation(DR_SF12, FALSE),
                 [RxInfo(-90, 7, <<7>>) EXCEPT !.crc_status = crc]) :
        crc \in {"BadCrc", "NoCrc"}}
    \cup {UplinkFrame(DevicePhy, kHz(868100),
                      data_rate_to_gw_modulation(DR_SF12, FALSE), None),
          UplinkFrame([mhdr |-> 224, rest |-> <<1, 2, 3>>], kHz(868100),
                      data_rate_to_gw_modulation(DR_SF12, FALSE),
                      RxInfo(-90, 7, <<7>>))}

DirectUplinks == DeviceUplinks \cup DroppedUplinks

MaxDirectUplinks == 3

(* only node n has run a handler *)
Single(n) == out.op = "init" \/ out.node = n

DirectNext ==
    \E n \in DirectNodes, pl \in DirectUplinks,
       m \in {AllOk, [AllOk EXCEPT ![1] = "Nack"]}, fm \in BOOLEAN :
        /\ Single(n)
        /\ UPLINK_ID[n] < MaxDirectUplinks
        /\ DeviceEvent(n, pl, [Env(m, "Ok", {}) EXCEPT !.filter_matches = fm])

SpecDirect == Init /\ [][DirectNext]_vars

(* a device uplink that passes the pre-filter with a frequency and a       *)
(* modulation of the mapping tables                                        *)
DirectUplinkPasses ==
    /\ out.op = "uplink"
    /\ out.input.rx_info # None
    /\ out.input.rx_info.crc_status = "CrcOk"
    /\ ~is_proprietary(out.input.phy_payload)
    /\ out.env.filter_matches
    /\ format_uplink(out.input).ok
    /\ modulation_to_dr(out.node, out.input.tx_info.modulation).ok
    /\ frequency_to_chan(out.node, out.input.tx_info.frequency).ok

(* C11: on a Relay Gateway (border_gateway = false) a device uplink with   *)
(* CRC OK that is not proprietary and passes the filters is encapsulated   *)
(* in a mesh Uplink packet and sent to the mesh radio, whatever the value  *)
(* of border_gateway_ignore_direct_uplinks                                 *)
C11_FlagOnlyOnBorder ==
    (DirectUplinkPasses /\ ~conf[out.node].mesh.border_gateway)
        => /\ Len(out.io.mesh) = 1
           /\ SentPacket(1).mhdr.payload_type = "Uplink"
           /\ SentPacket(1).payload.phy_payload = out.input.phy_payload

(* the last run handled a device-radio uplink the pre-filter rejects *)
PreFilterRejects ==
    /\ out.op = "uplink"
    /\ \/ out.input.rx_info # None /\ out.input.rx_info.crc_status # "CrcOk"
       \/ is_proprietary(out.input.phy_payload)
       \/ ~out.env.filter_matches

(* C12: a device-radio uplink whose CRC status is not OK, or whose first   *)
(* byte has its top three bits set, or that the dev_addr/join_eui filters  *)
(* reject, produces no outbound action (no forwarder event, no command to  *)
(* a radio) and changes no engine state (uplink-id counter, context store, *)
(* mesh channel cursor, dedup cache, sockets)                              *)
C12_PreFilter ==
    PreFilterRejects
        => /\ out.io = NoIo
           /\ out.res = Ok("unit")
           /\ St(out.node) = out.pre

(* a frame of a mapped channel and data rate, CRC OK and not proprietary,  *)
(* that only the filters reject, at a Relay Gateway that has encapsulated  *)
(* an uplink before: it leaves the counter and the cursor where they were  *)
C12_Witness ==
    /\ out.op = "uplink"
    /\ out.node = "R2"
    /\ out.input.rx_info # None
    /\ out.input.rx_info.crc_status = "CrcOk"
    /\ ~is_proprietary(out.input.phy_payload)
    /\ ~out.env.filter_matches
    /\ frequency_to_chan(out.node, out.input.tx_info.frequency).ok
    /\ modulation_to_dr(out.node, out.input.tx_info.modulation).ok
    /\ out.pre.uplink_id = 1
    /\ UPLINK_ID["R2"] = 1
    /\ MESH_CHANNEL["R2"] = 1

(* C18: the first mesh transmission after start-up (here the first         *)
(* encapsulated device uplink of a Relay Gateway) is sent on               *)
(* mesh.frequencies[0], for every non-empty list of mesh frequencies       *)
C18_FirstFrequency ==
    (out.op = "uplink" /\ out.pre.mesh_channel = InitSt.mesh_channel
     /\ out.pre.sock = InitSock /\ out.pre.uplink_id = InitSt.uplink_id
     /\ Len(out.io.mesh) = 1)
        => out.io.mesh[1].items[1].tx_info.frequency
               = conf[out.node].mesh.frequencies[1]

(***************************************************************************)
(* SpecCommands: the Relay Gateway Rc receives Command packets addressed   *)
(* to itself and to relay X, with one to three commands                    *)
(***************************************************************************)
(* type 131 is not configured, type 132 has an empty argv, type 133 is the *)
(* one whose process may fail to start                                     *)
CommandLists ==
    {<<Proprietary(130, <<1>>)>>,
     <<Proprietary(131, <<1>>)>>,
     <<Proprietary(133, <<4>>), Proprietary(130, <<1>>)>>,
     <<Proprietary(130, <<1>>), Proprietary(133, <<4>>)>>,
     <<Proprietary(131, <<2>>), Proprietary(130, <<1>>), Proprietary(133, <<4>>)>>,
     <<Proprietary(130, <<1>>), Proprietary(132, <<3>>), Proprietary(130, <<5>>)>>,
     <<Proprietary(132, <<3>>), Proprietary(131, <<2>>)>>}

MaxCommandRecv == 2

CommandsNext ==
    \E c \in CommandLists, to \in {RELAY_ID["Rc"], X_RELAY_ID},
       m \in {AllOk, [AllOk EXCEPT ![1] = "Timeout"]}, sf \in {{}, {133}} :
        /\ Len(hist["Rc"]) < MaxCommandRecv
        /\ MeshEvent("Rc",
                     MeshRx(Frame(CommandPacket(to, Len(hist["Rc"]) + 1, c, 1), MeshKey),
                            GoodRx),
                     Env(m, "Ok", sf))

SpecCommands == Init /\ [][CommandsNext]_vars

(* the last run accepted a Command packet addressed to the gateway itself: *)
(* MIC valid, not seen before, timestamp above that of the last one        *)
OwnCommandAccepted ==
    /\ out.op = "mesh"
    /\ FreshReception(out.node)
    /\ ReceivedPacket.mhdr.payload_type = "Command"
    /\ ReceivedPacket.payload.relay_id = RELAY_ID[out.node]
    /\ ~timestamp_not_incremented(out.pre.last_timestamp,
                                  ReceivedPacket.payload.timestamp)

(* the commands of the received payload, decrypted *)
ReceivedCommands ==
    MeshPacket_decrypt(ReceivedPacket, get_encryption_key(NullKey)).v.payload.commands

(* whether a command can be executed by the last run's gateway *)
Executable(c) ==
    /\ c.t \in DOMAIN conf[out.node].commands
    /\ conf[out.node].commands[c.t] # <<>>
    /\ c.t \notin out.env.spawn_fail

(* the event that answers command c *)
ResultOf(c) == Proprietary(c.t, Stdout(c.t, c.v))

(* C15: a Relay Gateway that accepts a Command packet addressed to itself  *)
(* runs the commands in payload order and then gives the mesh radio        *)
(* exactly one packet, an Event packet with hop_count 1 and its own        *)
(* relay_id whose events are, in the same order, one Proprietary event     *)
(* with the type id and the stdout of each command that was executed; the  *)
(* Command packet is not re-relayed, and when no command gave a result     *)
(* nothing is sent                                                         *)
C15_ExecuteAndReply ==
    OwnCommandAccepted =>
        LET done == SelectSeq(ReceivedCommands, Executable)
        IN /\ out.io.exec = ReceivedCommands
           /\ out.io.dev = <<>>
           /\ out.io.fwd = <<>>
           /\ IF done = <<>>
              THEN out.io.mesh = <<>> /\ out.res = Ok("unit")
              ELSE /\ Len(out.io.mesh) = 1
                   /\ SentPacket(1).mhdr = [payload_type |-> "Event", hop_count |-> 1]
                   /\ SentPacket(1).payload.relay_id = RELAY_ID[out.node]
                   /\ EventsOf(SentPacket(1)) =
                          [i \in 1..Len(done) |-> ResultOf(done[i])]

(* Rc answered a payload of three commands, the second of which failed,    *)
(* with the results of the first and the third, in this order              *)
C15_Witness ==
    /\ OwnCommandAccepted
    /\ Len(ReceivedCommands) = 3
    /\ ~Executable(ReceivedCommands[2])
    /\ Len(out.io.mesh) = 1
    /\ EventsOf(SentPacket(1)) =
          <<ResultOf(ReceivedCommands[1]), ResultOf(ReceivedCommands[3])>>
    /\ ReceivedCommands[1] # ReceivedCommands[3]

(* C20: when a Command payload holds several commands and one of them      *)
(* fails (type not configured, empty argv, spawn error), the commands      *)
(* after it are still executed and their results are in the reply          *)
C20_BatchIsolation ==
    OwnCommandAccepted =>
        \A i \in 1..Len(ReceivedCommands) :
            (/\ Executable(ReceivedCommands[i])
             /\ \E j \in 1..(i - 1) : ~Executable(ReceivedCommands[j]))
                => /\ Len(out.io.mesh) = 1
                   /\ \E k \in 1..Len(EventsOf(SentPacket(1))) :
                         EventsOf(SentPacket(1))[k] = ResultOf(ReceivedCommands[i])

(* the process of the first command could not be started, the second       *)
(* command ran and its result is the reply                                 *)
C20_Witness ==
    /\ OwnCommandAccepted
    /\ Len(ReceivedCommands) = 2
    /\ ReceivedCommands[1].t \in out.env.spawn_fail
    /\ ReceivedCommands[1].t \in DOMAIN conf[out.node].commands
    /\ Len(out.io.mesh) = 1
    /\ EventsOf(SentPacket(1)) = <<ResultOf(ReceivedCommands[2])>>

(***************************************************************************)
(* SpecKeys: a Relay Gateway and the Border Gateway of its mesh, with each *)
(* configuration of mesh.root_key and mesh.signing_key.  The relay         *)
(* originates Event packets (heartbeat, event set, command reply) and the  *)
(* Border receives what the relay's mesh radio put on the air; the time    *)
(* passes before the first handler runs                                    *)
(***************************************************************************)
KeyPairs == {<<"R", "B">>, <<"Rk", "Bk">>, <<"Rs", "Bs">>, <<"Rb", "Bb">>}

(* the Border Gateway that shares the keys of relay n *)
Peer(n) == (CHOOSE p \in KeyPairs : p[1] = n)[2]

(* the frame of packet p as a gateway with the keys of n builds it *)
FrameFor(n, p) ==
    MeshPacket_to_vec(
        MeshPacket_set_mic(
            MeshPacket_encrypt(p, get_encryption_key(conf[n].mesh.root_key)).v,
            signing_key_of(n)).v).v

(* the event sets of the loops: type 127 is not configured *)
EventSets == {<<128>>, <<128, 129>>, <<129, 127>>}

(* only the gateways of pair p have run a handler *)
PairAlone(p) == out.op = "init" \/ out.node \in {p[1], p[2]}

MaxKeyRecv == 2

KeysNext ==
    \/ \E p \in KeyPairs, m \in {AllOk, [AllOk EXCEPT ![1] = "Nack"]} :
            /\ PairAlone(p)
            /\ ReportHeartbeat(p[1], Env(m, "Ok", {}))
    \/ \E p \in KeyPairs, typs \in EventSets, sf \in {{}, {129}} :
            /\ PairAlone(p)
            /\ ReportEvents(p[1], typs, Env(AllOk, "Ok", sf))
    \/ \E p \in KeyPairs :
            /\ PairAlone(p)
            /\ Len(hist[p[1]]) < MaxKeyRecv
            /\ MeshEvent(p[1],
                         MeshRx(FrameFor(p[1],
                                         CommandPacket(RELAY_ID[p[1]],
                                                       Len(hist[p[1]]) + 1,
                                                       <<Proprietary(130, <<1>>)>>,
                                                       1)),
                                GoodRx),
                         Env(AllOk, "Ok", {}))
    \/ \E p \in KeyPairs, f \in air :
            /\ PairAlone(p)
            /\ Len(hist[p[2]]) < MaxKeyRecv
            /\ MeshEvent(p[2], MeshRx(f, GoodRx), Env(AllOk, "Ok", {}))
    \/ (out.op = "init" /\ Tick)

SpecKeys == Init /\ [][KeysNext]_vars

(* the last run originated an Event packet: a turn of the heartbeat loop   *)
(* or of an event-set loop, or the reply to an accepted Command            *)
Originated ==
    /\ Len(out.io.mesh) = 1
    /\ out.op \in {"heartbeat", "events"} \/ OwnCommandAccepted

(* the events the last run put in the packet it originated *)
OriginalEvents ==
    CASE out.op = "heartbeat" -> <<Heartbeat(<<>>)>>
      [] out.op = "events" ->
            [i \in 1..Len(out.input) |->
                Proprietary(out.input[i], Stdout(out.input[i], <<>>))]
      [] OTHER ->
            [i \in 1..Len(ReceivedCommands) |-> ResultOf(ReceivedCommands[i])]

(* C16: every Event packet a Relay Gateway originates (heartbeat, event    *)
(* set, command reply) is encrypted with the encryption key and signed     *)
(* with the signing key that handle_mesh of a peer with the same           *)
(* mesh.root_key and mesh.signing_key uses: the peer finds the MIC valid   *)
(* and decrypts the events to the original list, and the Border Gateway    *)
(* that receives the frame from the air does not drop it for its MIC       *)
C16_KeyAgreement ==
    /\ Originated =>
          /\ MeshPacket_validate_mic(SentPacket(1), signing_key_of(Peer(out.node)))
                = Ok(TRUE)
          /\ MeshPacket_decrypt(
                 SentPacket(1),
                 get_encryption_key(conf[Peer(out.node)].mesh.root_key)
             ).v.payload.events = OriginalEvents
    /\ (out.op = "mesh" /\ out.node \in Borders /\ out.input.phy_payload \in air)
          => /\ received_key(out.node, out.input) # None
             /\ FreshReception(out.node) => out.io.fwd # <<>>

(* the same for the gateways of the test configuration, whose keys are     *)
(* both zero                                                               *)
KeyAgreementNullKeys ==
    (out.node \in TestMesh) => C16_KeyAgreement

(***************************************************************************)
(* SpecLate: R after it has encapsulated one device uplink with context    *)
(* <<7>> under uplink id 1 and then 4095 more with context <<8>>, under    *)
(* the ids 2 to 4095 and 0: the next id it allocates is 1 again.  The      *)
(* initial state is computed by running the handler that many times.       *)
(***************************************************************************)
LateAged == AfterUplinks(WrapFirst.s, MappedUplink(<<8>>), MaxUplinkId)

LateInit ==
    /\ PAYLOAD_CACHE = [n \in Node |-> InitSt.cache]
    /\ UPLINK_ID = [n \in Node |-> IF n = "R" THEN LateAged.uplink_id
                                   ELSE InitSt.uplink_id]
    /\ UPLINK_CONTEXT = [n \in Node |-> IF n = "R" THEN LateAged.uplink_context
                                        ELSE InitSt.uplink_context]
    /\ MESH_CHANNEL = [n \in Node |-> IF n = "R" THEN LateAged.mesh_channel
                                      ELSE InitSt.mesh_channel]
    /\ LAST_TIMESTAMP = [n \in Node |-> InitSt.last_timestamp]
    /\ sock = [n \in Node |-> IF n = "R" THEN LateAged.sock ELSE InitSt.sock]
    /\ loops = [n \in Node |-> InitLoops]
    /\ timers = [n \in Node |-> setup(n)]
    /\ now = 1
    /\ air = Range(WrapFirst.io.aired)
    /\ fwd = {}
    /\ hist = [n \in Node |-> <<>>]
    /\ hopped = [n \in Node |-> <<>>]
    /\ flight = [n \in Flooders |-> {}]
    /\ CommandInit
    /\ encapsulated =
          [n \in Node |->
              IF n = "R"
              THEN [i \in 1..(MaxUplinkId + 1) |->
                       [uplink_id |-> i % (MaxUplinkId + 1),
                        context |-> IF i = 1 THEN <<7>> ELSE <<8>>]]
              ELSE <<>>]
    /\ out = [node |-> "R", op |-> "init", input |-> None, env |-> None,
              pre |-> InitSt, after_error |-> FALSE, io |-> NoIo, res |-> Ok("unit")]

MaxLateUplinks == 2

(* the number of uplink ids R has allocated since LateInit *)
LateAllocated == (UPLINK_ID["R"] - LateAged.uplink_id) % (MaxUplinkId + 1)

LateNext ==
    \/ \E pl \in {MappedUplink(<<6>>), UnmappedUplink(<<9>>)},
          m \in {AllOk, [AllOk EXCEPT ![1] = "Nack"]} :
            /\ LateAllocated < MaxLateUplinks
            /\ DeviceEvent("R", pl, Env(m, "Ok", {}))
    \/ \E u \in {0, 1, 2, 3}, d \in RadioReply :
            /\ Len(hist["R"]) < MaxRecv
            /\ MeshEvent("R",
                         MeshRx(Frame(DownlinkPacket(RELAY_ID["R"], u, 1, 0, 1), MeshKey),
                                GoodRx),
                         Env(AllOk, d, {}))

SpecLate == LateInit /\ [][LateNext]_vars

(* C17: when R receives a relayed Downlink addressed to it after its       *)
(* uplink-id counter has wrapped past the uplink_id of the packet (every   *)
(* uplink R encapsulated under that id has been followed by 4096 or more   *)
(* encapsulated uplinks), the handler fails for want of an uplink context  *)
(* and gives the device radio nothing; it does not schedule the downlink   *)
(* with the context of a later uplink                                      *)
C17_LateDownlink ==
    (/\ OwnDownlinkReceived
     /\ out.input.rx_info # None
     /\ LET same == {i \in 1..Len(encapsulated["R"]) :
                        encapsulated["R"][i].uplink_id =
                            ReceivedPacket.payload.metadata.uplink_id}
        IN /\ same # {}
           /\ \A i \in same : Len(encapsulated["R"]) - i >= MaxUplinkId + 1)
        => /\ out.io.dev = <<>>
           /\ out.res = Err("No uplink context for uplink_id")

(***************************************************************************)
(* SpecProxy: the command loop of the Border Gateway B and the messages of *)
(* its forwarder.  A forwarder that got no reply sends its next message on *)
(* a socket of its own making, so a message may wait at any turn.          *)
(***************************************************************************)
DownlinkMessages ==
    {<<<<Utf8("down"), Body("DownlinkFrame", pl)>>, Env(m, "Ok", {})>> :
        pl \in ShortDownlinks, m \in FirstReplies}
    \cup {<<<<Utf8("down"), Body("DownlinkFrame", pl)>>, Env(AllOk, d, {})>> :
            pl \in DirectDownlinks, d \in RadioReply}

OtherMessages ==
         {<<Utf8("config"), Body("GatewayConfiguration", [version |-> "1"])>>,
          <<Utf8("gateway_id"), EmptyBody>>,
          <<Utf8("down"), Garbage>>,
          <<Utf8("config"), Garbage>>,
          <<Utf8("stats"), Garbage>>,
          <<NotUtf8, Garbage>>,
          <<Utf8("gateway_id")>>,
          <<Utf8("down"), Body("DownlinkFrame", DownlinkFrame(<<>>)), Garbage>>}

ProxyNext ==
    \/ \E c \in DownlinkMessages : ForwarderCommand("B", c[1], c[2])
    \/ \E msg \in OtherMessages, d \in RadioReply :
            ForwarderCommand("B", msg, Env(AllOk, d, {}))
    \/ ForwarderCommand("B", NoMessage, Env(AllOk, "Ok", {}))

SpecProxy == Init /\ [][ProxyNext]_vars

(* C19: every command received on the responder socket of the forwarder is *)
(* answered with exactly one reply before the next one is read: a turn of  *)
(* the command loop at whose socket a message waits sends one reply, with  *)
(* an empty body when the handler of a downlink fails and when the message *)
(* cannot be decoded or is not a known command                             *)
C19_AlwaysReplies ==
    (out.op = "command" /\ out.input # NoMessage)
        => /\ Len(out.io.rep) = 1
           /\ sock[out.node].rep_sock = "Ready"
           /\ ~read_command("Ready", out.input).res.ok => out.io.rep[1] = EmptyBody
           /\ (/\ read_command("Ready", out.input).res.ok
               /\ read_command("Ready", out.input).res.v.kind = "Downlink"
               /\ ~out.res.ok) => out.io.rep[1] = EmptyBody

(* the same for the messages that read_command can decode, received while  *)
(* the socket owes no reply                                                *)
RepliesToDecodable ==
    (/\ out.op = "command" /\ out.input # NoMessage
     /\ out.pre.sock.rep_sock = "Ready"
     /\ read_command("Ready", out.input).res.ok)
        => C19_AlwaysReplies

(***************************************************************************)
(* SpecLoops: the two event loops of the Relay Gateway R, with events      *)
(* whose handling fails: a frame that does not decode, a packet at the hop *)
(* limit, an uplink on a frequency without a channel, a radio that rejects *)
(* the command or does not answer                                          *)
(***************************************************************************)
LoopReceptions ==
    {<<[mhdr |-> 224], AllOk>>,
     <<Frame(UplinkPacket(X_RELAY_ID, 5, 3), MeshKey), AllOk>>}
    \cup {<<Frame(UplinkPacket(X_RELAY_ID, u, 1), MeshKey), m>> :
            u \in {5, 6}, m \in {AllOk, [AllOk EXCEPT ![1] = "Nack"]}}

LoopUplinks ==
    {<<MappedUplink(<<7>>), m>> :
        m \in {AllOk, [AllOk EXCEPT ![1] = "Nack"], [AllOk EXCEPT ![1] = "Timeout"]}}
    \cup {<<UnmappedUplink(<<9>>), AllOk>>}

MaxLoopRecv == 2

MaxLoopUplinks == 2

LoopsNext ==
    \/ \E r \in LoopReceptions :
            /\ Len(hist["R"]) < MaxLoopRecv
            /\ MeshEvent("R", MeshRx(r[1], GoodRx), Env(r[2], "Ok", {}))
    \/ \E u \in LoopUplinks :
            /\ UPLINK_ID["R"] < MaxLoopUplinks
            /\ DeviceEvent("R", u[1], Env(u[2], "Ok", {}))

SpecLoops == Init /\ [][LoopsNext]_vars

(* C13: for each radio, when the handling of one event returns an error    *)
(* (decode failure, mapping error, hop limit, radio command failure) the   *)
(* event loop stays alive and handles the next event of that radio: a loop *)
(* whose last event failed is running, and after a failed run the handler  *)
(* has run on the next event                                               *)
C13_FailureIsolation ==
    /\ \A n \in Node, l \in DOMAIN InitLoops :
          loops[n][l].failed => loops[n][l].running
    /\ (out.op \in DOMAIN InitLoops /\ ~out.res.ok) => loops[out.node][out.op].running

(* after an event of the mesh radio failed at the hop limit, the mesh loop *)
(* handled the next packet and re-relayed it, and the device loop handled  *)
(* an uplink after one that failed                                         *)
C13_Witness ==
    /\ out.op = "mesh"
    /\ out.node = "R"
    /\ out.after_error
    /\ out.res.ok
    /\ Len(out.io.aired) = 1
    /\ Len(hist["R"]) = 2
    /\ ~hist["R"][1].acted
    /\ loops["R"].uplink.failed
    /\ loops["R"].uplink.running

(***************************************************************************)
(* SpecEvents: the loops of events::setup on one gateway at a time: the    *)
(* Relay Gateway R, the relay Rz with heartbeat_interval 0, the relay Re   *)
(* with event sets that fail, and the Border Gateway B.  The mesh radio    *)
(* accepts, rejects or does not answer a command; the process of an event  *)
(* type cannot always be spawned; the time passes                          *)
(***************************************************************************)
EventNodes == {"R", "Rz", "Re", "B"}

SpawnFailures == {{}, {129}}

(* the numbers of frames a gateway puts on the air in a behaviour *)
MaxEmissions == 2

EventsNext ==
    \/ \E n \in EventNodes, m \in FirstReplies :
            /\ Single(n)
            /\ Cardinality(air) < MaxEmissions
            /\ ReportHeartbeat(n, Env(m, "Ok", {}))
    \/ \E n \in EventNodes, k \in 1..4, sf \in SpawnFailures :
            /\ Single(n)
            /\ Cardinality(air) < MaxEmissions
            /\ k <= Len(conf[n].events.sets)
            /\ ReportEvents(n, conf[n].events.sets[k].events, Env(AllOk, "Ok", sf))
    \/ Tick

SpecEvents == Init /\ [][EventsNext]_vars

(* the events of the types of an event set that get_event can obtain *)
Obtained(n, typs, env) ==
    LET ok == SelectSeq(typs, LAMBDA t : get_event(n, t, env).ok)
    IN  [i \in 1..Len(ok) |-> get_event(n, ok[i], env).v]

(* the last run was a turn of an event-set loop in which some type of the  *)
(* set could be obtained and some other could not                          *)
PartlyObtained ==
    /\ out.op = "events"
    /\ Obtained(out.node, out.input, out.env) # <<>>
    /\ Len(Obtained(out.node, out.input, out.env)) < Len(out.input)

(* the events in the Event packet the last run gave the mesh radio *)
SentEvents ==
    MeshPacket_decrypt(SentPacket(1), get_encryption_key(NullKey)).v.payload.events

(* C21: when obtaining the event of one type of an event set fails (type   *)
(* not configured, empty argv, process cannot be run), the events of the   *)
(* remaining types of the set are still collected and sent in the Event    *)
(* packet of that interval                                                 *)
C21_EventSetIsolation ==
    PartlyObtained =>
        /\ Len(out.io.mesh) = 1
        /\ SentEvents = Obtained(out.node, out.input, out.env)

(* a turn of an event-set loop in which every type is obtained sends one   *)
(* Event packet with the events of all types, in the order of the set      *)
EventSetComplete ==
    (/\ out.op = "events"
     /\ Len(Obtained(out.node, out.input, out.env)) = Len(out.input))
        => /\ Len(out.io.mesh) = 1
           /\ SentPacket(1).mhdr = [payload_type |-> "Event", hop_count |-> 1]
           /\ SentEvents = Obtained(out.node, out.input, out.env)

(* a turn of an event-set loop in which a type cannot be obtained gives    *)
(* the mesh radio nothing and ends in the error of that type               *)
EventSetAborted ==
    (/\ out.op = "events"
     /\ Len(Obtained(out.node, out.input, out.env)) < Len(out.input))
        => /\ out.io.mesh = <<>>
           /\ ~out.res.ok

(* a turn of the heartbeat loop: it runs on a Relay Gateway whose          *)
(* heartbeat_interval is not zero, gives the mesh radio one Event packet   *)
(* with hop count 1, the relay's id and the single event Heartbeat with an *)
(* empty relay path, and leaves the loop asleep for one interval           *)
HeartbeatEmission ==
    out.op = "heartbeat" =>
        /\ ~conf[out.node].mesh.border_gateway
        /\ conf[out.node].events.heartbeat_interval # 0
        /\ Len(out.io.mesh) = 1
        /\ Len(out.io.mesh[1].items) = 1
        /\ SentPacket(1).mhdr = [payload_type |-> "Event", hop_count |-> 1]
        /\ SentPacket(1).payload.relay_id = RELAY_ID[out.node]
        /\ SentEvents = <<Heartbeat(<<>>)>>
        /\ timers[out.node].heartbeat =
              Some(SentPacket(1).payload.timestamp
                   + conf[out.node].events.heartbeat_interval)

(* the sleep of a heartbeat loop changes only by a turn of that loop, made *)
(* when the sleep has ended                                                *)
HeartbeatTurn ==
    \A n \in Node :
        timers'[n].heartbeat # timers[n].heartbeat =>
            /\ timers[n].heartbeat # None
            /\ now >= timers[n].heartbeat.v
            /\ out'.op = "heartbeat"
            /\ out'.node = n

(* C22: only a Relay Gateway with a non-zero heartbeat_interval emits      *)
(* heartbeats; each emission is one Event packet with hop count 1, its own *)
(* relay id and a single Heartbeat with an empty relay path; a failed      *)
(* emission does not stop the loop, the next heartbeat is attempted after  *)
(* the interval; a Border Gateway and a relay with interval 0 never emit   *)
C22_PeriodicHeartbeat == []HeartbeatEmission /\ [][HeartbeatTurn]_vars

(* a heartbeat attempted on a mesh radio socket that an earlier heartbeat  *)
(* left waiting for its reply: a turn of the loop after a failed one       *)
C22_Witness ==
    /\ out.op = "heartbeat"
    /\ out.res = Err(EFSM)
    /\ SentPacket(1).payload.timestamp >= 1 + HeartbeatInterval

(***************************************************************************)
(* SpecMic: a Relay Gateway and the Border Gateway of its mesh, with each  *)
(* configuration of the keys, on every path that gives the mesh radio a    *)
(* packet: the relay encapsulates a device uplink, re-relays the packets   *)
(* of relay X, answers a Command and reports its heartbeat; the Border     *)
(* encapsulates a downlink and sends a MeshCommand                         *)
(***************************************************************************)
(* the packets relay n receives: of relay X, and a Command for itself *)
MicPackets(n) ==
    {UplinkPacket(X_RELAY_ID, 5, 1),
     DownlinkPacket(X_RELAY_ID, 1, 1, 0, 1),
     CommandPacket(X_RELAY_ID, 1, <<Proprietary(130, <<1>>)>>, 1),
     EventPacket(X_RELAY_ID, 1, <<Heartbeat(<<>>), Proprietary(128, <<1>>)>>, 1),
     CommandPacket(RELAY_ID[n], 1, <<Proprietary(130, <<1>>)>>, 1)}

(* the MeshCommands a Border is asked to send: for the relay, with an item *)
(* that carries no command; with a relay id of three bytes                 *)
MeshCommands ==
    {[relay_id |-> r,
      commands |-> <<[command_type |-> 130, payload |-> <<1>>], None>>] :
        r \in {<<2, 2, 2, 2>>, <<2, 2, 2>>}}

MaxMicRecv == 2

MaxMicUplinks == 1

MicNext ==
    \/ \E p \in KeyPairs :
            /\ PairAlone(p)
            /\ UPLINK_ID[p[1]] < MaxMicUplinks
            /\ DeviceEvent(p[1], MappedUplink(<<7>>), Env(AllOk, "Ok", {}))
    \/ \E p \in KeyPairs : \E pk \in MicPackets(p[1]) :
            /\ PairAlone(p)
            /\ Len(hist[p[1]]) < MaxMicRecv
            /\ MeshEvent(p[1], MeshRx(FrameFor(p[1], pk), GoodRx), Env(AllOk, "Ok", {}))
    \/ \E p \in KeyPairs :
            /\ PairAlone(p)
            /\ ReportHeartbeat(p[1], Env(AllOk, "Ok", {}))
    \/ \E p \in KeyPairs :
            /\ PairAlone(p)
            /\ ForwarderDownlink(p[2], DownlinkFrame(<<GoodItem(1)>>),
                                 Env(AllOk, "Ok", {}))
    \/ \E p \in KeyPairs, c \in MeshCommands :
            /\ PairAlone(p)
            /\ SendMeshCommand(p[2], c, Env(AllOk, "Ok", {}))

SpecMic == Init /\ [][MicNext]_vars

(* a gateway of the mesh of n: it has the keys of n *)
Mate(n) ==
    CHOOSE m \in Node \ {n} :
        /\ conf[m].mesh.root_key = conf[n].mesh.root_key
        /\ conf[m].mesh.signing_key = conf[n].mesh.signing_key

(* the last run re-relayed the packet it received *)
ReRelayed ==
    /\ out.op = "mesh"
    /\ out.io.mesh # <<>>
    /\ ReceivedPacket.payload.relay_id # RELAY_ID[out.node]

(* C23: every mesh packet the engine hands to the mesh radio (originated   *)
(* uplink, downlink, command, event, re-relayed packet) carries a MIC      *)
(* computed over the header and body that are transmitted, after the hop   *)
(* count increment, the relay-path append and the encryption: a peer with  *)
(* the same keys finds the MIC of the transmitted packet valid             *)
C23_MicOverTransmitted ==
    /\ \A k \in 1..Len(out.io.mesh) :
          MeshPacket_validate_mic(SentPacket(k), signing_key_of(Mate(out.node)))
             = Ok(TRUE)
    /\ ReRelayed =>
          SentPacket(1).mhdr.hop_count = ReceivedPacket.mhdr.hop_count + 1

(* the same for the packets the handlers of mesh.rs sign themselves: the   *)
(* encapsulated uplink and downlink, the MeshCommand, the re-relayed       *)
(* packet                                                                  *)
MicOfMeshHandlers ==
    (out.op \in {"uplink", "downlink", "mesh_command"} \/ ReRelayed)
        => C23_MicOverTransmitted

(* the same for the gateways of the test configuration, whose keys are     *)
(* both zero, on every path                                                *)
MicNullKeys ==
    (out.node \in TestMesh) => C23_MicOverTransmitted

(* a heartbeat re-relayed with the relay's entry appended to its path, by  *)
(* a relay with a root key and by one with a signing key                   *)
MicReRelayedEvent ==
    /\ ReRelayed
    /\ out.node \in {"Rk", "Rs"}
    /\ SentPacket(1).mhdr = [payload_type |-> "Event", hop_count |-> 2]

(***************************************************************************)
(* SpecForged: the relay R3 (three mesh frequencies) receives frames that  *)
(* a stranger signed with its own key and frames too short to decode, and, *)
(* right after a forged frame, the genuine frame of the same packet; a     *)
(* device uplink gives it an uplink context                                *)
(***************************************************************************)
ForgedPackets ==
    {UplinkPacket(X_RELAY_ID, 5, 1),
     UplinkPacket(X_RELAY_ID, 6, 2),
     DownlinkPacket(X_RELAY_ID, 1, 1, 0, 1),
     EventPacket(X_RELAY_ID, 1, <<Heartbeat(<<>>)>>, 1),
     CommandPacket(X_RELAY_ID, 1, <<Proprietary(130, <<1>>)>>, 1),
     CommandPacket(RELAY_ID["R3"], 2, <<Proprietary(130, <<1>>)>>, 1)}

ForgedFrames == {Frame(pk, StrangerKey) : pk \in ForgedPackets}

(* frames of a MHDR byte alone: an Uplink, an Event *)
ShortFrames == {[mhdr |-> 224], [mhdr |-> 240]}

MaxForgedRecv == 2

MaxForgedUplinks == 1

ForgedNext ==
    \/ \E f \in ForgedFrames \cup ShortFrames :
            /\ Single("R3")
            /\ MeshEvent("R3", MeshRx(f, GoodRx), Env(AllOk, "Ok", {}))
    \/ \E pk \in ForgedPackets :
            /\ out.op = "mesh"
            /\ out.input.phy_payload = Frame(pk, StrangerKey)
            /\ Len(hist["R3"]) < MaxForgedRecv
            /\ MeshEvent("R3", MeshRx(Frame(pk, MeshKey), GoodRx), Env(AllOk, "Ok", {}))
    \/ /\ UPLINK_ID["R3"] < MaxForgedUplinks
       /\ DeviceEvent("R3", MappedUplink(<<7>>), Env(AllOk, "Ok", {}))

SpecForged == Init /\ [][ForgedNext]_vars

(* the last run received a frame whose MIC is not that of the mesh, or a   *)
(* frame that does not decode                                              *)
Rejected ==
    /\ out.op = "mesh"
    /\ out.input.phy_payload \in ForgedFrames \cup ShortFrames

(* the last run received a genuine frame whose packet was not received in  *)
(* a genuine frame before                                                  *)
FirstGenuine ==
    /\ out.op = "mesh"
    /\ out.input.phy_payload \in {Frame(pk, MeshKey) : pk \in ForgedPackets}
    /\ \A i \in 1..(Len(hist[out.node]) - 1) :
          hist[out.node][i].key # PayloadCache_from(ReceivedPacket)

(* C24: a mesh frame that fails the MIC validation or does not decode      *)
(* changes no engine state (dedup cache, last command timestamp, uplink    *)
(* contexts, mesh channel cursor) and causes no outbound action, so a      *)
(* later genuine packet with the same dedup identity is still accepted     *)
C24_RejectedFrameNoEffect ==
    /\ Rejected =>
          /\ St(out.node) = out.pre
          /\ out.io = NoIo
    /\ FirstGenuine =>
          /\ \A i \in 1..Len(out.pre.cache) :
                out.pre.cache[i] # PayloadCache_from(ReceivedPacket)
          /\ \E i \in 1..Len(PAYLOAD_CACHE[out.node]) :
                PAYLOAD_CACHE[out.node][i] = PayloadCache_from(ReceivedPacket)
          /\ out.io.mesh # <<>>

(* the genuine Command for the relay is executed and answered right after  *)
(* a forged frame of the same Command, when the relay has already accepted *)
(* another packet                                                          *)
C24_Witness ==
    /\ FirstGenuine
    /\ Len(hist[out.node]) = 2
    /\ ReceivedPacket.payload.relay_id = RELAY_ID[out.node]
    /\ out.io.exec # <<>>
    /\ out.io.mesh # <<>>

(***************************************************************************)
(* SpecCache: a Cache of a small capacity, as Cache::new builds it, under  *)
(* any sequence of Cache::add calls.  PAYLOAD_CACHE["R"] is the deque of   *)
(* the cache, out is the last call (out.pre the cache before it, out.res   *)
(* what it returned) and hist["R"] the entries whose add returned true     *)
(***************************************************************************)
MaxCacheSize == 3

CacheEntries == 1..(MaxCacheSize + 1)

MaxAccepted == 5

CacheInit ==
    /\ PAYLOAD_CACHE = [n \in Node |-> InitSt.cache]
    /\ UPLINK_ID = [n \in Node |-> InitSt.uplink_id]
    /\ UPLINK_CONTEXT = [n \in Node |-> InitSt.uplink_context]
    /\ MESH_CHANNEL = [n \in Node |-> InitSt.mesh_channel]
    /\ LAST_TIMESTAMP = [n \in Node |-> InitSt.last_timestamp]
    /\ sock = [n \in Node |-> InitSt.sock]
    /\ loops = [n \in Node |-> InitLoops]
    /\ timers = [n \in Node |-> setup(n)]
    /\ now = 1
    /\ air = {}
    /\ fwd = {}
    /\ hist = [n \in Node |-> <<>>]
    /\ hopped = [n \in Node |-> <<>>]
    /\ flight = [n \in Flooders |-> {}]
    /\ CommandInit
    /\ encapsulated = [n \in Node |-> <<>>]
    /\ \E size \in 1..MaxCacheSize :
          out = [node |-> "R", op |-> "new", input |-> size, env |-> None,
                 pre |-> Cache_new(size), after_error |-> FALSE, io |-> NoIo,
                 res |-> Ok(TRUE)]

(* cache.add(value) *)
CacheAdd(value) ==
    Let([deque |-> PAYLOAD_CACHE["R"], size |-> out.pre.size], LAMBDA self :
    Let(Cache_add_self(self, value), LAMBDA r :
    /\ PAYLOAD_CACHE' = [PAYLOAD_CACHE EXCEPT !["R"] = r.self.deque]
    /\ hist' = IF r.added
               THEN [hist EXCEPT !["R"] = Append(@, [key |-> value, acted |-> TRUE])]
               ELSE hist
    /\ out' = [out EXCEPT !.op = "add", !.input = value, !.pre = self,
                          !.res = Ok(r.added)]
    /\ UNCHANGED <<UPLINK_ID, UPLINK_CONTEXT, MESH_CHANNEL, LAST_TIMESTAMP, sock,
                   loops, timers, now, air, fwd, encapsulated, hopped, flight>>
    /\ UNCHANGED cmd_vars))

CacheNext ==
    \E value \in CacheEntries :
        /\ Len(hist["R"]) < MaxAccepted
        /\ CacheAdd(value)

SpecCache == CacheInit /\ [][CacheNext]_vars

(* C25: Cache::add(x) returns true exactly when x is not in the cache at   *)
(* the time of the call, and then x is in the cache; it returns false      *)
(* exactly when x is already present, and then the content and the order   *)
(* of the cache are unchanged                                              *)
C25_AddReturnsFresh ==
    out.op = "add" =>
        /\ out.res.v = (\A i \in 1..Len(out.pre.deque) : out.pre.deque[i] # out.input)
        /\ out.res.v => \E i \in 1..Len(PAYLOAD_CACHE["R"]) :
                            PAYLOAD_CACHE["R"][i] = out.input
        /\ ~out.res.v => PAYLOAD_CACHE["R"] = out.pre.deque

(* add(x) returned false on a full cache in which x is not the newest      *)
(* entry                                                                   *)
C25_Witness ==
    /\ out.op = "add"
    /\ ~out.res.v
    /\ Len(out.pre.deque) = out.pre.size
    /\ out.pre.size > 1
    /\ out.pre.deque[Len(out.pre.deque)] # out.input

(* the entries whose add returned true, in the order of the calls *)
Accepted == [i \in 1..Len(hist["R"]) |-> hist["R"][i].key]

Min(a, b) == IF a < b THEN a ELSE b

(* C26: after any sequence of add calls on a cache of capacity N the cache *)
(* holds exactly the last min(k, N) of the k accepted entries, in the      *)
(* order they were accepted: its size never exceeds N, it holds no         *)
(* duplicates, and an insertion into a full cache evicts exactly the       *)
(* oldest entry                                                            *)
C26_LastAccepted ==
    LET deque == PAYLOAD_CACHE["R"]
        N == out.pre.size
        k == Len(Accepted)
    IN  /\ deque = SubSeq(Accepted, k - Min(k, N) + 1, k)
        /\ Len(deque) <= N
        /\ \A i, j \in 1..Len(deque) : deque[i] = deque[j] => i = j
        /\ (out.op = "add" /\ out.res.v /\ Len(out.pre.deque) = N)
              => deque = Append(Tail(out.pre.deque), out.input)

(* an insertion into a full cache of capacity 2 or more, after which an    *)
(* entry accepted earlier has left the cache                               *)
C26_Witness ==
    /\ out.op = "add"
    /\ out.res.v
    /\ out.pre.size > 1
    /\ Len(out.pre.deque) = out.pre.size
    /\ Len(Accepted) > out.pre.size + 1

(***************************************************************************)
(* SpecIdentity: the relay R receives genuine frames of the relays X and Y *)
(* that agree or differ in the payload type, the relay id, the uplink id,  *)
(* the timestamp, the hop count, the metadata and the payload.  R          *)
(* re-relays every packet it does not drop as a duplicate, so the frames   *)
(* on the air are those of the packets it accepted                         *)
(***************************************************************************)
Y_RELAY_ID == <<4, 4, 4, 4>>

IdentityPackets ==
    {UplinkPacket(X_RELAY_ID, 5, 1),
     UplinkPacket(X_RELAY_ID, 5, 2),
     [UplinkPacket(X_RELAY_ID, 5, 1) EXCEPT
         !.payload.metadata.rssi = -30, !.payload.metadata.channel = 2,
         !.payload.phy_payload = [mhdr |-> 64, rest |-> <<4, 5>>]],
     UplinkPacket(X_RELAY_ID, 6, 1),
     UplinkPacket(Y_RELAY_ID, 5, 1),
     DownlinkPacket(X_RELAY_ID, 5, 1, 0, 1),
     [DownlinkPacket(X_RELAY_ID, 5, 0, 0, 2) EXCEPT
         !.payload.metadata.delay = 6,
         !.payload.phy_payload = [mhdr |-> 96, rest |-> <<7>>]],
     EventPacket(X_RELAY_ID, 1, <<Heartbeat(<<>>)>>, 1),
     EventPacket(X_RELAY_ID, 2, <<Heartbeat(<<>>)>>, 1),
     EventPacket(X_RELAY_ID, 1, <<Proprietary(128, <<1>>)>>, 2),
     CommandPacket(X_RELAY_ID, 1, <<Proprietary(130, <<1>>)>>, 1),
     CommandPacket(X_RELAY_ID, 2, <<Proprietary(130, <<1>>)>>, 1),
     CommandPacket(Y_RELAY_ID, 1, <<Proprietary(130, <<1>>)>>, 1)}

MaxIdentityRecv == 3

IdentityNext ==
    \E pk \in IdentityPackets :
        /\ Len(hist["R"]) < MaxIdentityRecv
        /\ MeshEvent("R", MeshRx(Frame(pk, MeshKey), GoodRx), Env(AllOk, "Ok", {}))

SpecIdentity == Init /\ [][IdentityNext]_vars

(* the dedup identity of two packets is the same: the payload type and the *)
(* relay id, with the uplink id for Uplink and Downlink and with the       *)
(* timestamp in whole seconds for Event and Command                        *)
SameIdentity(p, q) ==
    /\ p.mhdr.payload_type = q.mhdr.payload_type
    /\ p.payload.relay_id = q.payload.relay_id
    /\ IF p.mhdr.payload_type \in {"Uplink", "Downlink"}
       THEN p.payload.metadata.uplink_id = q.payload.metadata.uplink_id
       ELSE p.payload.timestamp = q.payload.timestamp

(* a reception is dropped as a duplicate exactly when R has re-relayed a   *)
(* packet of the same identity before it                                   *)
DroppedIffSameIdentity ==
    LET q == MeshPacket_from_slice(out'.input.phy_payload).v
    IN  (out'.io = NoIo /\ PAYLOAD_CACHE' = PAYLOAD_CACHE)
        <=> (\E f \in air : SameIdentity(MeshPacket_from_slice(f).v, q))

(* C27: two Event (or two Command) packets with the same relay id and      *)
(* different timestamps are never deduplicated against each other, an      *)
(* Uplink, a Downlink, an Event and a Command packet never deduplicate one *)
(* another, and for Uplink and Downlink the identity is exactly (payload   *)
(* type, uplink id, relay id), whatever the hop count, the metadata and    *)
(* the payload                                                             *)
C27_DedupIdentity == [][DroppedIffSameIdentity]_vars

(* an Event of X with timestamp 2 and a Command of X are re-relayed after  *)
(* an Event of X with timestamp 1                                          *)
C27_Witness ==
    /\ out.op = "mesh"
    /\ out.io.mesh # <<>>
    /\ ReceivedPacket.mhdr.payload_type = "Command"
    /\ ReceivedPacket.payload.relay_id = X_RELAY_ID
    /\ \E f, g \in air :
          /\ MeshPacket_from_slice(f).v.mhdr.payload_type = "Event"
          /\ MeshPacket_from_slice(g).v.mhdr.payload_type = "Event"
          /\ MeshPacket_from_slice(f).v.payload.relay_id = X_RELAY_ID
          /\ MeshPacket_from_slice(g).v.payload.relay_id = X_RELAY_ID
          /\ MeshPacket_from_slice(f).v.payload.timestamp = 1
          /\ MeshPacket_from_slice(g).v.payload.timestamp = 2

(***************************************************************************)
(* SpecAlloc: the relay R after start-up, or after the 4095 device uplinks *)
(* of SpecWrap, receives device uplinks (on a mapped channel or not, the   *)
(* mesh radio accepting the packet or not): each one allocates an uplink   *)
(* id for its context                                                      *)
(***************************************************************************)
MaxAllocUplinks == 3

AllocInit == Init \/ WrapInit

AllocNext ==
    \E pl \in DeviceUplinks, m \in {AllOk, [AllOk EXCEPT ![1] = "Nack"]} :
        /\ (UPLINK_ID["R"] + 1) % (MaxUplinkId + 1) <= MaxAllocUplinks
        /\ DeviceEvent("R", pl, Env(m, "Ok", {}))

SpecAlloc == AllocInit /\ [][AllocNext]_vars

(* C28: the first id store_uplink_context returns after start-up is 1,     *)
(* each later call returns the previous id plus 1, the id after 4095 is 0, *)
(* every id is within 0..4095, and right after the call the context stored *)
(* for the returned id is the one passed                                   *)
C28_UplinkIdAllocation ==
    out.op = "uplink" =>
        LET id == UPLINK_ID[out.node]
        IN  /\ id \in 0..4095
            /\ id = IF out.pre.uplink_id = 4095 THEN 0 ELSE out.pre.uplink_id + 1
            /\ out.pre = InitSt => id = 1
            /\ get_uplink_context(UPLINK_CONTEXT[out.node], id)
                  = Ok(out.input.rx_info.context)
            /\ out.io.mesh # <<>> => SentPacket(1).payload.metadata.uplink_id = id

(* the uplink after the one with id 4095 is encapsulated with id 0, and    *)
(* its context replaces nothing: id 0 was never allocated before           *)
C28_Witness ==
    /\ out.op = "uplink"
    /\ out.pre.uplink_id = 4095
    /\ 0 \notin DOMAIN out.pre.uplink_context
    /\ UPLINK_ID[out.node] = 0
    /\ out.io.mesh # <<>>

(***************************************************************************)
(* SpecHop: each Hopper alone, on every path that asks the hopper for a    *)
(* mesh frequency.  The relays encapsulate device uplinks, re-relay the    *)
(* packets of relay X, answer a Command, report their heartbeat and an     *)
(* event set; the Border encapsulates downlinks of two items and sends     *)
(* MeshCommands.  The mesh radio accepts or refuses the first item of a    *)
(* downlink.                                                               *)
(***************************************************************************)
(* the calls of the hopper observed on one gateway *)
MaxHops == 4

HopPackets(n) ==
    {UplinkPacket(X_RELAY_ID, 5, 1),
     EventPacket(X_RELAY_ID, 1, <<Heartbeat(<<>>)>>, 1),
     CommandPacket(RELAY_ID[n], 1, <<Proprietary(130, <<1>>)>>, 1)}

HopReplies == {AllOk, [AllOk EXCEPT ![1] = "Nack"]}

HopNext ==
    \/ \E n \in Hoppers :
            /\ Single(n)
            /\ Len(hopped[n]) < MaxHops
            /\ UPLINK_ID[n] < MaxHops
            /\ ~conf[n].mesh.border_gateway
            /\ DeviceEvent(n, MappedUplink(<<7>>), Env(AllOk, "Ok", {}))
    \/ \E n \in Hoppers : \E pk \in HopPackets(n) :
            /\ Single(n)
            /\ Len(hopped[n]) < MaxHops
            /\ Len(hist[n]) < MaxHops
            /\ ~conf[n].mesh.border_gateway
            /\ MeshEvent(n, MeshRx(FrameFor(n, pk), GoodRx), Env(AllOk, "Ok", {}))
    \/ \E n \in Hoppers :
            /\ Single(n)
            /\ Len(hopped[n]) < MaxHops
            /\ ReportHeartbeat(n, Env(AllOk, "Ok", {}))
    \/ \E n \in Hoppers :
            /\ Single(n)
            /\ Len(hopped[n]) < MaxHops
            /\ ReportEvents(n, <<128, 129>>, Env(AllOk, "Ok", {}))
    \/ \E n \in Hoppers, m \in HopReplies :
            /\ Single(n)
            /\ Len(hopped[n]) < MaxHops
            /\ conf[n].mesh.border_gateway
            /\ ForwarderDownlink(n, DownlinkFrame(<<GoodItem(1), GoodItem(2)>>),
                                 Env(m, "Ok", {}))
    \/ \E n \in Hoppers, c \in MeshCommands :
            /\ Single(n)
            /\ Len(hopped[n]) < MaxHops
            /\ conf[n].mesh.border_gateway
            /\ SendMeshCommand(n, c, Env(AllOk, "Ok", {}))
    \/ (out.op = "init" /\ Tick)

SpecHop == Init /\ [][HopNext]_vars

(* how often frequency f is among the calls i..j of log *)
Returned(log, i, j, f) == Cardinality({k \in i..j : log[k] = f})

(* the last run asked the hopper of a gateway without mesh frequencies: it *)
(* had an uplink to encapsulate, a heartbeat or events to report, or a     *)
(* packet that passed the dedup cache to re-relay or to answer             *)
AskedEmptyHopper ==
    /\ conf[out.node].mesh.frequencies = <<>>
    /\ \/ out.op \in {"uplink", "heartbeat", "events"}
       \/ out.op = "mesh" /\ PAYLOAD_CACHE[out.node] # out.pre.cache

HopperEmptyAsked == ~AskedEmptyHopper

(* the Border with two frequencies made calls for a downlink and a command *)
HopperBorderMixed == ~(Len(hopped["HB"]) = MaxHops /\ out.op = "mesh_command")

(***************************************************************************)
(* SpecChannel: the two command threads of gateway R and the tasks that    *)
(* send commands through them, step by step.  A producer puts its command  *)
(* on the channel of a radio and awaits the response; the thread of the    *)
(* radio takes the commands off the channel one by one, sends each on its  *)
(* REQ socket, polls for the reply and sends the response to the producer. *)
(* The concentratord answers the requests it holds, in time or late.       *)
(***************************************************************************)
(* the commands put on the channels of the two radios *)
MaxCommands == 3

(* the state of the engine apart from the REQ sockets *)
mesh_vars ==
    <<PAYLOAD_CACHE, UPLINK_ID, UPLINK_CONTEXT, MESH_CHANNEL, LAST_TIMESTAMP,
      loops, timers, now, air, fwd, hist, encapsulated, hopped, flight, out>>

(* the radios the commands of a producer go to: the event loop of the      *)
(* device radio, the heartbeat loop and the event-set loops send mesh      *)
(* frames; the mesh event loop re-relays and sends unwrapped downlinks to  *)
(* the device radio; the forwarder's commands go to the device radio or,   *)
(* encapsulated, to the mesh radio                                         *)
Radios(c) == IF c \in {"mesh", "proxy"} THEN Radio ELSE {"mesh_concentratord"}

(* the number of commands put on the channel of radio r so far *)
Queued(r) == Len(concentratord[r].order) + Len(CMD_CHAN[r])

(* send_command, send_mesh_command up to the await: producer c puts a      *)
(* command and the sender of a fresh oneshot channel on the channel of     *)
(* radio r.  The id numbers the commands of a radio in the order they were *)
(* queued.                                                                 *)
backend_send_command(c, r) ==
    /\ oneshot[c] = None
    /\ Queued("concentratord") + Queued("mesh_concentratord") < MaxCommands
    /\ CMD_CHAN' = [CMD_CHAN EXCEPT ![r] =
                       Append(@, [caller |-> c, id |-> Queued(r) + 1])]
    /\ oneshot' = [oneshot EXCEPT ![c] =
                      Some([radio |-> r, id |-> Queued(r) + 1, resp |-> None])]
    /\ UNCHANGED <<cmd_thread, concentratord, sock, mesh_vars>>

(* the command thread: blocking_recv returns the oldest command, and       *)
(* send_zmq_command sends it on the socket in state sk                     *)
command_thread_recv(r) ==
    /\ cmd_thread[r] = None
    /\ CMD_CHAN[r] # <<>>
    /\ Let(Head(CMD_CHAN[r]), LAMBDA cmd :
       Let(sock["R"][r], LAMBDA sk :
       /\ CMD_CHAN' = [CMD_CHAN EXCEPT ![r] = Tail(@)]
       /\ cmd_thread' = [cmd_thread EXCEPT ![r] =
                            Some([caller |-> cmd.caller, id |-> cmd.id, sk |-> sk])]
       /\ sock' = IF sock_send(sk).ok THEN [sock EXCEPT !["R"][r] = "AwaitingReply"]
                  ELSE sock
       /\ concentratord' =
             [concentratord EXCEPT
                 ![r].wire = IF sock_send(sk).ok THEN Append(@, cmd.id) ELSE @,
                 ![r].order = Append(@, cmd.id)]
       /\ UNCHANGED <<oneshot, mesh_vars>>))

(* the concentratord answers the oldest request it holds *)
concentratord_replies(r, ack) ==
    /\ concentratord[r].wire # <<>>
    /\ concentratord' =
          [concentratord EXCEPT
              ![r].wire = Tail(@),
              ![r].inbox = Append(@, [of |-> Head(concentratord[r].wire),
                                      ack |-> ack])]
    /\ UNCHANGED <<CMD_CHAN, cmd_thread, oneshot, sock, mesh_vars>>

(* the command thread: send_zmq_command returns, with the reply the socket *)
(* holds or, without one after 100 ms, an error, and the thread sends the  *)
(* response on the oneshot channel of the command                          *)
command_thread_respond(r) ==
    /\ cmd_thread[r] # None
    /\ Let(cmd_thread[r].v, LAMBDA cmd :
       Let(concentratord[r].inbox, LAMBDA inbox :
       Let(send_zmq_command(cmd.sk, IF inbox # <<>> THEN Head(inbox).ack
                                    ELSE "Timeout"), LAMBDA resp :
       /\ cmd_thread' = [cmd_thread EXCEPT ![r] = None]
       /\ sock' = [sock EXCEPT !["R"][r] = resp.sock]
       /\ concentratord' =
             [concentratord EXCEPT ![r].inbox = IF resp.res.ok THEN Tail(@) ELSE @]
       /\ oneshot' =
             [oneshot EXCEPT ![cmd.caller] =
                 Some([radio |-> @.v.radio, id |-> @.v.id,
                       resp |-> Some([res |-> resp.res,
                                      of |-> IF resp.res.ok THEN Head(inbox).of
                                             ELSE 0])])]
       /\ UNCHANGED <<CMD_CHAN, mesh_vars>>)))

(* cmd_rx.await returns the response to producer c *)
await_response(c) ==
    /\ oneshot[c] # None
    /\ oneshot[c].v.resp # None
    /\ oneshot' = [oneshot EXCEPT ![c] = None]
    /\ UNCHANGED <<CMD_CHAN, cmd_thread, concentratord, sock, mesh_vars>>

ChannelNext ==
    \/ \E c \in Producer : \E r \in Radios(c) : backend_send_command(c, r)
    \/ \E r \in Radio : command_thread_recv(r)
    \/ \E r \in Radio, ack \in RadioReply \ {"Timeout"} : concentratord_replies(r, ack)
    \/ \E r \in Radio : command_thread_respond(r)
    \/ \E c \in Producer : await_response(c)

SpecChannel == Init /\ [][ChannelNext]_vars

(* C30: per radio, at most one command is with the concentratord           *)
(* unanswered; the commands leave the channel, and go to the socket, in    *)
(* the order the producers queued them; the thread is in send_zmq_command  *)
(* for a command whose producer awaits just that command; and the reply a  *)
(* producer receives is the concentratord's reply to its own command       *)
C30_CommandSerialization ==
    /\ \A r \in Radio :
          /\ Len(concentratord[r].wire) <= 1
          /\ concentratord[r].order = [i \in 1..Len(concentratord[r].order) |-> i]
          /\ \A k \in 1..Len(CMD_CHAN[r]) :
                CMD_CHAN[r][k].id = Len(concentratord[r].order) + k
          /\ cmd_thread[r] # None =>
                oneshot[cmd_thread[r].v.caller]
                    = Some([radio |-> r, id |-> cmd_thread[r].v.id, resp |-> None])
    /\ \A c \in Producer :
          (oneshot[c] # None /\ oneshot[c].v.resp # None) =>
              LET resp == oneshot[c].v.resp.v
              IN  IF resp.res.ok THEN resp.of = oneshot[c].v.id
                  ELSE resp.res \in {Err(EFSM), Err("Could not read down response")}

(* the mesh event loop has the reply to its command, the second of three   *)
(* on the mesh radio, while the command of the heartbeat loop is with the  *)
(* concentratord                                                           *)
C30_Witness ==
    /\ oneshot["mesh"] # None
    /\ oneshot["mesh"].v.radio = "mesh_concentratord"
    /\ oneshot["mesh"].v.id = 2
    /\ oneshot["mesh"].v.resp # None
    /\ oneshot["mesh"].v.resp.v.res = Ok("Nack")
    /\ oneshot["heartbeat"] = Some([radio |-> "mesh_concentratord", id |-> 3,
                                    resp |-> None])
    /\ concentratord["mesh_concentratord"].wire = <<3>>

(* a command is refused by the socket while the late reply to an earlier   *)
(* command lies unread                                                     *)
ChannelLateReply ==
    ~(\E c \in Producer :
         /\ oneshot[c] # None
         /\ oneshot[c].v.resp # None
         /\ oneshot[c].v.resp.v.res = Err(EFSM)
         /\ concentratord[oneshot[c].v.radio].inbox # <<>>)

(***************************************************************************)
(* Specifications of the pure functions: the initial state holds the       *)
(* configuration or the value a function is applied to, in out.pre, and    *)
(* every step applies the function to an argument                          *)
(***************************************************************************)
(* the statics and the environment of Init, apart from out *)
StaticsInit ==
    /\ PAYLOAD_CACHE = [n \in Node |-> InitSt.cache]
    /\ UPLINK_ID = [n \in Node |-> InitSt.uplink_id]
    /\ UPLINK_CONTEXT = [n \in Node |-> InitSt.uplink_context]
    /\ MESH_CHANNEL = [n \in Node |-> InitSt.mesh_channel]
    /\ LAST_TIMESTAMP = [n \in Node |-> InitSt.last_timestamp]
    /\ sock = [n \in Node |-> InitSt.sock]
    /\ loops = [n \in Node |-> InitLoops]
    /\ timers = [n \in Node |-> setup(n)]
    /\ now = 1
    /\ air = {}
    /\ fwd = {}
    /\ hist = [n \in Node |-> <<>>]
    /\ hopped = [n \in Node |-> <<>>]
    /\ flight = [n \in Flooders |-> {}]
    /\ CommandInit
    /\ encapsulated = [n \in Node |-> <<>>]

(* a function of helpers.rs or packets.rs returns res for input: nothing   *)
(* but out changes                                                         *)
Returns(op, input, res) ==
    /\ out' = [out EXCEPT !.op = op, !.input = input, !.res = res]
    /\ UNCHANGED <<PAYLOAD_CACHE, UPLINK_ID, UPLINK_CONTEXT, MESH_CHANNEL,
                   LAST_TIMESTAMP, sock, loops, timers, now, air, fwd, hist,
                   encapsulated, hopped, flight>>
    /\ UNCHANGED cmd_vars

(***************************************************************************)
(* SpecTxPower: tx_power_to_index on every list of mappings.tx_power of up *)
(* to MaxTable values, in any order and with repetitions, for every        *)
(* requested power from below the smallest to above the largest value      *)
(***************************************************************************)
MaxTable == 3

MaxPower == 3

TxPowerTables == UNION {[1..k -> 1..MaxPower] : k \in 0..MaxTable}

TxPowerInit ==
    /\ StaticsInit
    /\ \E table \in TxPowerTables :
          out = [node |-> "R", op |-> "config", input |-> 0, env |-> None,
                 pre |-> table, after_error |-> FALSE, io |-> NoIo,
                 res |-> Ok(0)]

TxPowerNext ==
    \E tx_power \in 0..(MaxPower + 1) :
        Returns("tx_power_to_index", tx_power, tx_power_to_index_in(out.pre, tx_power))

SpecTxPower == TxPowerInit /\ [][TxPowerNext]_vars

(* the 1-based positions of the values of the list that are not above the  *)
(* requested power                                                         *)
NotAbove == {i \in 1..Len(out.pre) : out.pre[i] <= out.input}

(* C31: tx_power_to_index(p) returns an index whose value is the largest   *)
(* value of mappings.tx_power that is less than or equal to p, whatever    *)
(* the order of the list and with or without an exact match, and fails     *)
(* exactly when no value of the list is less than or equal to p            *)
C31_LargestNotAbove ==
    out.op = "tx_power_to_index" =>
        IF NotAbove = {} THEN ~out.res.ok
        ELSE /\ out.res.ok
             /\ out.res.v + 1 \in NotAbove
             /\ \A i \in NotAbove : out.pre[i] <= out.pre[out.res.v + 1]

(* what tx_power_to_index does return: it fails exactly when no value is   *)
(* less than or equal to p; the index of the first exact match when there  *)
(* is one; else the index of the last value below p                        *)
TxPowerLastBelow ==
    out.op = "tx_power_to_index" =>
        IF NotAbove = {} THEN ~out.res.ok
        ELSE /\ out.res.ok
             /\ LET exact == {i \in NotAbove : out.pre[i] = out.input}
                IN  IF exact # {}
                    THEN /\ out.res.v + 1 \in exact
                         /\ \A i \in exact : out.res.v + 1 <= i
                    ELSE \A i \in NotAbove : i <= out.res.v + 1

(* on a list in ascending order the index is that of the largest value not *)
(* above p                                                                 *)
TxPowerAscending ==
    (/\ out.op = "tx_power_to_index"
     /\ \A i \in 1..Len(out.pre), j \in 1..Len(out.pre) :
            i < j => out.pre[i] < out.pre[j]
     /\ NotAbove # {})
        => /\ out.res.ok
           /\ \A i \in NotAbove : out.pre[i] <= out.pre[out.res.v + 1]

(***************************************************************************)
(* SpecFreq: encode_freq and decode_freq, one after the other, on the      *)
(* frequencies around 0, 1.2 GHz, 100 Hz * 2^24, 2.4 GHz and 200 Hz * 2^24 *)
(* and on the channels of the test configuration.  A frequency is counted  *)
(* in units of 50 Hz.                                                      *)
(***************************************************************************)
(* how far, in units of 50 Hz, the frequencies lie from the five anchors *)
MaxOffset == 6

FreqAnchors == {0, 24000000, 33554432, 48000000, 67108864}

Frequencies ==
    {a + d : a \in FreqAnchors, d \in 0..MaxOffset}
    \cup {a - d : a \in FreqAnchors \ {0}, d \in 1..MaxOffset}
    \cup Range(mappings_channels)

FreqInit ==
    /\ StaticsInit
    /\ \E freq \in Frequencies :
          out = [node |-> "R", op |-> "config", input |-> 0, env |-> None,
                 pre |-> freq, after_error |-> FALSE, io |-> NoIo,
                 res |-> Ok(0)]

FreqNext ==
    \/ /\ out.op = "config"
       /\ Returns("encode_freq", out.pre, encode_freq(out.pre))
    \/ /\ out.op = "encode_freq"
       /\ out.res.ok
       /\ Returns("decode_freq", out.res.v, Ok(decode_freq(out.res.v)))

SpecFreq == FreqInit /\ [][FreqNext]_vars

(* C32: for every frequency f that encode_freq accepts,                    *)
(* decode_freq(encode_freq(f)) is f                                        *)
C32_FreqRoundTrip == out.op = "decode_freq" => out.res = Ok(out.pre)

(* what does hold: encode_freq accepts the multiples of 100 Hz below       *)
(* 100 Hz * 2^24 and the multiples of 200 Hz from 2.4 GHz up to below      *)
(* 200 Hz * 2^24; the round trip gives f below 1.2 GHz and from 2.4 GHz    *)
(* on, and 2 * f from 1.2 GHz up to below 100 Hz * 2^24                    *)
FreqRoundTripOutside ==
    /\ out.op = "encode_freq" =>
          (out.res.ok <=> \/ out.pre < 33554432 /\ out.pre % 2 = 0
                          \/ /\ out.pre >= 48000000
                             /\ out.pre < 67108864
                             /\ out.pre % 4 = 0)
    /\ out.op = "decode_freq" =>
          out.res = Ok(IF out.pre >= 24000000 /\ out.pre < 33554432
                       THEN 2 * out.pre ELSE out.pre)

(***************************************************************************)
(* SpecCrypt: encrypt and then decrypt, with the same key, of Event and    *)
(* Command payloads of one or two items: heartbeats with and without a     *)
(* relay path, proprietary items with values of 0, 1, 255 and 256 bytes    *)
(* and with type 0, an item the encoder refuses                            *)
(***************************************************************************)
MaxCryptItems == 2

(* a value of 256 bytes: its first two bytes read as a tag and a length of *)
(* 254                                                                     *)
LongValue == <<200, 254>> \o [i \in 1..254 |-> 0]

CryptCommands ==
    {Proprietary(128, <<>>), Proprietary(129, <<1>>), Proprietary(0, <<5>>),
     Proprietary(130, [i \in 1..255 |-> 7]), Proprietary(131, LongValue)}

CryptEvents ==
    CryptCommands
    \cup {Heartbeat(<<>>), Heartbeat(<<PathEntry>>),
          Heartbeat(<<PathEntry, [PathEntry EXCEPT !.snr = -3]>>),
          Heartbeat(<<[PathEntry EXCEPT !.rssi = 1]>>)}

CryptPayloads ==
    {[kind |-> "Event",
      payload |-> [timestamp |-> 1, relay_id |-> RELAY_ID["R"], events |-> items]] :
        items \in UNION {[1..k -> CryptEvents] : k \in 1..MaxCryptItems}}
    \cup
    {[kind |-> "Command",
      payload |-> [timestamp |-> 1, relay_id |-> RELAY_ID["R"], commands |-> items]] :
        items \in UNION {[1..k -> CryptCommands] : k \in 1..MaxCryptItems}}

CryptInit ==
    /\ StaticsInit
    /\ \E p \in CryptPayloads :
          out = [node |-> "R", op |-> "config", input |-> NullKey, env |-> None,
                 pre |-> p, after_error |-> FALSE, io |-> NoIo,
                 res |-> Ok(p.payload)]

CryptNext ==
    \/ \E root_key \in {NullKey, "root"} :
          /\ out.op = "config"
          /\ Returns("encrypt", get_encryption_key(root_key),
                     IF out.pre.kind = "Event"
                     THEN EventPayload_encrypt(out.pre.payload,
                                               get_encryption_key(root_key))
                     ELSE CommandPayload_encrypt(out.pre.payload,
                                                 get_encryption_key(root_key)))
    \/ /\ out.op = "encrypt"
       /\ out.res.ok
       /\ Returns("decrypt", out.input,
                  IF out.pre.kind = "Event"
                  THEN EventPayload_decrypt(out.res.v, out.input)
                  ELSE CommandPayload_decrypt(out.res.v, out.input))

SpecCrypt == CryptInit /\ [][CryptNext]_vars

(* C33: an Event or Command payload with a non-empty list of Heartbeat and *)
(* Proprietary items that encrypt accepts is, after encrypt and decrypt    *)
(* with the same key, the payload it was: the same items, timestamp and    *)
(* relay_id                                                                *)
C33_EncryptDecryptIdentity == out.op = "decrypt" => out.res = Ok(out.pre.payload)

(* the items of the payload the functions are applied to *)
CryptItems ==
    IF out.pre.kind = "Event" THEN out.pre.payload.events
    ELSE out.pre.payload.commands

(* what does hold: encrypt refuses exactly the payloads with a relay path  *)
(* entry out of range and changes nothing but the items; the identity      *)
(* holds for the payloads whose values are shorter than 256 bytes and, for *)
(* events, whose proprietary items have a type other than 0                *)
CryptIdentityShort ==
    /\ out.op = "encrypt" =>
          /\ out.res.ok <=>
                \A i \in 1..Len(CryptItems) :
                    CryptItems[i].kind = "Heartbeat" =>
                        \A k \in 1..Len(CryptItems[i].relay_path) :
                            CryptItems[i].relay_path[k].rssi \in -255..0
          /\ out.res.ok =>
                /\ out.res.v.timestamp = out.pre.payload.timestamp
                /\ out.res.v.relay_id = out.pre.payload.relay_id
    /\ (/\ out.op = "decrypt"
        /\ \A i \in 1..Len(CryptItems) :
              \/ CryptItems[i].kind = "Heartbeat"
                 /\ 6 * Len(CryptItems[i].relay_path) < 256
              \/ /\ CryptItems[i].kind = "Proprietary"
                 /\ Len(CryptItems[i].v) < 256
                 /\ (out.pre.kind = "Event" => CryptItems[i].t # 0))
          => out.res = Ok(out.pre.payload)

(***************************************************************************)
(* SpecFlood: the mesh of the three Flooders.  M3 encapsulates a device    *)
(* uplink or M1 reports its heartbeat; every frame one of the three        *)
(* transmits sets out to the two others, in MaxCopies copies, and they     *)
(* arrive in any order.  A behaviour is the flood of one packet.  M1 and   *)
(* M2 have a max_hop_count of 2, M3 of 3.                                  *)
(***************************************************************************)
FloodEnv == Env(AllOk, "Ok", {})

hop_count_of(frame) == MeshPacket_from_slice(frame).v.mhdr.hop_count

(* all copies have arrived *)
NoCopyInFlight == \A n \in Flooders : flight[n] = {}

(* a copy arrives at the mesh radio of a Flooder *)
FloodDeliver ==
    \E n \in Flooders : \E c \in flight[n] :
        /\ c[2] \in Copies
        /\ MeshEvent(n, MeshRx(c[1], GoodRx), FloodEnv)

FloodNext ==
    \/ /\ air = {}
       /\ DeviceEvent("M3", MappedUplink(<<7>>), FloodEnv)
    \/ /\ air = {}
       /\ ReportHeartbeat("M1", FloodEnv)
    \/ FloodDeliver

SpecFlood == Init /\ [][FloodNext]_vars

(* a copy waits at the mesh radio of a gateway whose mesh event loop runs: *)
(* ENABLED <<FloodDeliver>>_vars                                           *)
CopyWaiting == \E n \in Flooders : flight[n] # {} /\ loops[n].mesh.running

(* the mesh event loops take every copy from the mesh radio: the weak      *)
(* fairness WF_vars(FloodDeliver), with its ENABLED written as CopyWaiting *)
SpecFloodFair ==
    SpecFlood /\ ([]<>(~CopyWaiting) \/ []<><<FloodDeliver>>_vars)

(* the last run re-transmitted the packet it received *)
ReTransmitted ==
    /\ out.op = "mesh"
    /\ out.io.aired # <<>>
    /\ SentPacket(1).mhdr.payload_type = ReceivedPacket.mhdr.payload_type
    /\ SentPacket(1).payload.relay_id = ReceivedPacket.payload.relay_id

(* C34: flooding terminates: every re-transmission carries the hop count   *)
(* of the copy it was made from plus one, no copy a gateway transmits has  *)
(* a hop count above its max_hop_count, and eventually no copy is in       *)
(* flight any more                                                         *)
C34_FloodingTerminates ==
    /\ [](ReTransmitted =>
            /\ Len(out.io.aired) = 1
            /\ SentPacket(1).mhdr.hop_count = ReceivedPacket.mhdr.hop_count + 1
            /\ SentPacket(1).mhdr.hop_count <= conf[out.node].mesh.max_hop_count)
    /\ [](\A f \in air : hop_count_of(f) <= mesh_max_hop_count)
    /\ <>[]NoCopyInFlight

(* no copy is in flight any more after the packet went through the mesh    *)
(* with the hop counts 1, 2 and 3, and the last copy to arrive was dropped *)
C34_Witness ==
    /\ NoCopyInFlight
    /\ {hop_count_of(f) : f \in air} = 1..mesh_max_hop_count
    /\ out.op = "mesh"
    /\ out.io.aired = <<>>

(* the events of the Event packet in a frame *)
events_of(frame) ==
    MeshPacket_decrypt(MeshPacket_from_slice(frame).v,
                       get_encryption_key(NullKey)).v.payload.events

(* the frames on the air that carry the heartbeat of a Flooder *)
HeartbeatFrames ==
    {f \in air : /\ MeshPacket_from_slice(f).v.mhdr.payload_type = "Event"
                 /\ events_of(f)[1].kind = "Heartbeat"}

(* the relay ids along the relay path of the heartbeat in a frame *)
path_ids(frame) ==
    [i \in 1..Len(events_of(frame)[1].relay_path) |->
        events_of(frame)[1].relay_path[i].relay_id]

(* C35: the relay path of every transmitted heartbeat has hop_count - 1    *)
(* entries, none of them with the relay id of the originator, and a        *)
(* re-transmission carries the path of the copy it was made from followed  *)
(* by one entry with the relay id of the gateway that re-transmits: the    *)
(* i-th entry is the relay of the i-th re-transmission                     *)
C35_HeartbeatPath ==
    /\ \A f \in HeartbeatFrames :
          /\ Len(path_ids(f)) = hop_count_of(f) - 1
          /\ \A i \in 1..Len(path_ids(f)) :
                path_ids(f)[i] # MeshPacket_from_slice(f).v.payload.relay_id
    /\ (ReTransmitted /\ ReceivedPacket.mhdr.payload_type = "Event") =>
          path_ids(out.io.aired[1]) =
              Append(path_ids(out.input.phy_payload), RELAY_ID[out.node])

(* M3 re-transmits, with hop count 3, the heartbeat of M1 that M2 had      *)
(* re-transmitted: the path is M2, M3                                      *)
C35_Witness ==
    /\ ReTransmitted
    /\ out.node = "M3"
    /\ out.io.aired[1] \in HeartbeatFrames
    /\ hop_count_of(out.io.aired[1]) = 3
    /\ ReceivedPacket.payload.relay_id = RELAY_ID["M1"]
    /\ path_ids(out.io.aired[1]) = <<RELAY_ID["M2"], RELAY_ID["M3"]>>

(* C36: a relay that receives a mesh Uplink with its own relay_id sends    *)
(* nothing: no frame to the mesh radio, none to the device radio, no       *)
(* event to a forwarder, and the handler returns Ok                        *)
C36_OwnUplinkNotRelayed ==
    (/\ out.op = "mesh"
     /\ ReceivedPacket.mhdr.payload_type = "Uplink"
     /\ ReceivedPacket.payload.relay_id = RELAY_ID[out.node])
        => /\ out.io = NoIo
           /\ out.res = Ok("unit")

(* M3 receives, for the first time and with a hop count below its limit,   *)
(* a copy of the uplink it encapsulated                                    *)
C36_Witness ==
    /\ out.op = "mesh"
    /\ out.node = "M3"
    /\ ReceivedPacket.mhdr.payload_type = "Uplink"
    /\ ReceivedPacket.payload.relay_id = RELAY_ID["M3"]
    /\ ReceivedPacket.mhdr.hop_count = 2
    /\ encapsulated["M3"] # <<>>
    /\ PAYLOAD_CACHE["M3"] # out.pre.cache

(* C37: a device uplink the relay cannot encapsulate, so that nothing goes *)
(* to the mesh radio and the handler returns an error, leaves the          *)
(* uplink-id counter and the stored contexts as they were                  *)
C37_FailedUplinkNoState ==
    (/\ out.op = "uplink"
     /\ ~out.res.ok
     /\ out.io.mesh = <<>>)
        => /\ UPLINK_ID[out.node] = out.pre.uplink_id
           /\ UPLINK_CONTEXT[out.node] = out.pre.uplink_context

(* a gateway receives, right after an Event packet of a relay that it      *)
(* published or re-transmitted, another Event packet of that relay with a  *)
(* different payload                                                       *)
DistinctEventFollows ==
    LET p == MeshPacket_from_slice(out.input.phy_payload).v
        q == MeshPacket_from_slice(out'.input.phy_payload).v
    IN  /\ out.op = "mesh"
        /\ out'.op = "mesh"
        /\ out'.node = out.node
        /\ acted(out.io)
        /\ p.mhdr.payload_type = "Event"
        /\ q.mhdr.payload_type = "Event"
        /\ q.payload.relay_id = p.payload.relay_id
        /\ q.payload # p.payload

(* C38: an Event packet of a relay is not suppressed as the duplicate of a *)
(* different Event packet of that relay: the gateway that receives it      *)
(* publishes it (Border Gateway) or re-transmits it (Relay Gateway), also  *)
(* when both packets were emitted within the same second                   *)
C38_DistinctEventsNotSuppressed == [][DistinctEventFollows => acted(out'.io)]_vars

(***************************************************************************)
(* SpecDelay: the Border Gateway B relays downlinks of one item whose      *)
(* Delay timing has no duration or a number of seconds around 0, 16, 256   *)
(* and 272, until a mesh frame went on the air                             *)
(***************************************************************************)
(* how far the seconds are from 0, 16, 256 and 272 *)
MaxDelayOffset == 2

DelaySeconds ==
    {a + o : a \in {0, 16, 256, 272}, o \in (0 - MaxDelayOffset)..MaxDelayOffset}

DelayTimings ==
    {Delay(seconds) : seconds \in DelaySeconds}
    \cup {[kind |-> "Delay", delay |-> None]}

DelayDownlinks ==
    {DownlinkFrame(<<Item(b, TxInfo(f, 16, LoraIpol, timing, RelayedCtx))>>) :
        b \in {1, 2}, f \in {kHz(868300), kHz(868500)}, timing \in DelayTimings}

DelayNext ==
    \E pl \in DelayDownlinks, m \in {AllOk, [AllOk EXCEPT ![1] = "Nack"]} :
        /\ air = {}
        /\ ForwarderDownlink("B", pl, Env(m, "Ok", {}))

SpecDelay == Init /\ [][DelayNext]_vars

(* the Delay timing the forwarder asked for in the one item of the last    *)
(* downlink                                                                *)
RequestedDelay == out.input.items[1].tx_info.timing.delay

(* C39: the delay in the mesh Downlink packet is the number of seconds of  *)
(* the requested Delay timing, and no mesh packet is sent for a Delay      *)
(* timing without a duration or with a number of seconds outside 1..16     *)
C39_RelayedDelay ==
    (out.op = "downlink" /\ out.node = "B") =>
        /\ \A k \in 1..Len(out.io.mesh) :
              /\ RequestedDelay # None
              /\ SentPacket(k).payload.metadata.delay = RequestedDelay.v
        /\ (RequestedDelay = None \/ RequestedDelay.v \notin 1..16)
              => out.io.mesh = <<>>

(* what relay_downlink_lora_packet does: the delay of the mesh packet is   *)
(* the requested number of seconds modulo 256, and a mesh packet is sent   *)
(* exactly when that is within 1..16                                       *)
DelayModulo256 ==
    (out.op = "downlink" /\ out.node = "B") =>
        LET delay == IF RequestedDelay = None THEN 0 ELSE RequestedDelay.v % 256
        IN  /\ out.io.mesh # <<>> <=> delay \in 1..16
            /\ \A k \in 1..Len(out.io.mesh) :
                  SentPacket(k).payload.metadata.delay = delay

(***************************************************************************)
(* SpecRetry: relay R receives packets whose handling fails, and copies of *)
(* them: an Uplink of relay X at the hop limit and below it, with the mesh *)
(* radio accepting, refusing and not answering, and without rx_info;       *)
(* Downlinks for R with and without a stored context, with a tx power      *)
(* index and a data rate that have no mapping, with the device radio       *)
(* accepting, refusing and not answering; Commands for R with timestamp 2  *)
(* and then 1, with a command that cannot be spawned and with the mesh     *)
(* radio not answering the reply                                           *)
(***************************************************************************)
MaxRetryRecv == 3

RetryUplink(hop_count) == Frame(UplinkPacket(X_RELAY_ID, 5, hop_count), MeshKey)

RetryDownlink(tx_power, dr) ==
    Frame(DownlinkPacket(RELAY_ID["R"], 1, tx_power, dr, 1), MeshKey)

RetryCommand(timestamp) ==
    Frame(CommandPacket(RELAY_ID["R"], timestamp, <<Proprietary(130, <<1>>)>>, 1),
          MeshKey)

RetryReceptions ==
    {<<RetryUplink(mesh_max_hop_count), GoodRx, Env(AllOk, "Ok", {})>>,
     <<RetryUplink(1), None, Env(AllOk, "Ok", {})>>}
    \cup {<<RetryUplink(1), GoodRx, Env([AllOk EXCEPT ![1] = m], "Ok", {})>> :
            m \in RadioReply}
    \cup {<<RetryDownlink(1, 0), GoodRx, Env(AllOk, d, {})>> : d \in RadioReply}
    \cup {<<RetryDownlink(2, 0), GoodRx, Env(AllOk, "Ok", {})>>,
          <<RetryDownlink(1, 1), GoodRx, Env(AllOk, "Ok", {})>>}
    \cup {<<RetryCommand(2), GoodRx, Env(AllOk, "Ok", {})>>,
          <<RetryCommand(1), GoodRx, Env(AllOk, "Ok", {})>>,
          <<RetryCommand(1), GoodRx, Env(AllOk, "Ok", {130})>>,
          <<RetryCommand(1), GoodRx, Env([AllOk EXCEPT ![1] = "Timeout"], "Ok", {})>>}

RetryNext ==
    \/ /\ out.op = "init"
       /\ DeviceEvent("R", MappedUplink(<<7>>), Env(AllOk, "Ok", {}))
    \/ \E r \in RetryReceptions :
            /\ Len(hist["R"]) < MaxRetryRecv
            /\ MeshEvent("R", IF r[2] = None
                              THEN [MeshRx(r[1], GoodRx) EXCEPT !.rx_info = None]
                              ELSE MeshRx(r[1], r[2]), r[3])

SpecRetry == Init /\ [][RetryNext]_vars

(* the dedup identity of the packet of the last run, of a mesh reception   *)
(* with a valid MIC                                                        *)
LastKey == received_key(out.node, out.input)

(* the last run dropped what it received: nothing sent, nothing changed *)
Dropped ==
    /\ out.io = NoIo
    /\ out.res = Ok("unit")
    /\ St(out.node) = out.pre

(* C40: the identity of a MIC-valid packet is in the dedup cache after the *)
(* run that received it, whether the run succeeded or failed; a run that   *)
(* fails removes no entry; and a packet whose identity is in the cache is  *)
(* dropped: nothing is sent on either radio and nothing is executed or     *)
(* published                                                               *)
C40_FailedCopyStaysRecorded ==
    /\ []((out.op = "mesh" /\ LastKey # None) =>
            /\ \E i \in 1..Len(PAYLOAD_CACHE[out.node]) :
                    PAYLOAD_CACHE[out.node][i] = LastKey
            /\ (~out.res.ok) =>
                    \A i \in 1..Len(out.pre.cache) :
                        \E j \in 1..Len(PAYLOAD_CACHE[out.node]) :
                            PAYLOAD_CACHE[out.node][j] = out.pre.cache[i]
            /\ (\E i \in 1..Len(out.pre.cache) : out.pre.cache[i] = LastKey)
                    => Dropped)
    /\ [][(/\ out.op = "mesh"
           /\ LastKey # None
           /\ ~out.res.ok
           /\ out'.op = "mesh"
           /\ out'.node = out.node
           /\ received_key(out'.node, out'.input) = LastKey)
            => (out'.io = NoIo /\ out'.res = Ok("unit"))]_vars

(* R drops the copy with hop count 1 of an Uplink after the handling of    *)
(* the copy at the hop limit had failed, and after that of a Command whose *)
(* timestamp was rejected: nothing ever went on the air                    *)
C40_Witness ==
    /\ out.op = "mesh"
    /\ Len(hist["R"]) = 3
    /\ hist["R"][1].key = LastKey
    /\ ~hist["R"][1].acted
    /\ ReceivedPacket.mhdr.payload_type = "Uplink"
    /\ ReceivedPacket.mhdr.hop_count = 1
    /\ out.input.rx_info # None
    /\ Dropped
    /\ air = {}

====
